---- MODULE Spec2Model ----
(***************************************************************************)
(* A model of xilefian::bvec (src/cxx/include/xilefian/bvec.hpp): a bit    *)
(* vector that keeps its bits inline ("stack") or in an allocated array of *)
(* machine words ("heap"); of xilefian::bheap (bheap.hpp), a binary heap   *)
(* over a sequence; and of xilefian::btree (src/cxx/btree.hpp), a binary   *)
(* search tree whose iterators keep their path from the root in a bvec.    *)
(*                                                                         *)
(* A machine word, and the inline data value, is modelled as the set of    *)
(* the positions of its set bits, so that 64 and 128 bit values need no    *)
(* wide integers.  A heap buffer is the set of the set-bit positions of    *)
(* the whole buffer (word i holds positions i*block_digits .. ), which on  *)
(* a little-endian machine is also byte k holding positions 8k .. 8k+7.    *)
(***************************************************************************)
EXTENDS Integers, Sequences, FiniteSets, TLC

VARIABLES
    sizeof_pointer,     \* __SIZEOF_POINTER__ of the build: 8 or 4
    propagate,          \* the allocator traits of the build
    fresh,              \* what unwritten memory holds in this run: 0s or 1s
    near,               \* whether the allocator places buffers next to each other
    vec,                \* the two bvec objects "a" and "b"
    mem,                \* every buffer the word allocator ever handed out
    faults,             \* undefined behaviour met by the last operation
    last,               \* the last operation, its arguments and the state before it
    steps,              \* number of operations performed on constructed vectors
    limit,              \* number of operations the run performs at most
    bheap,              \* the bheap object: m_heap and m_comparator
    btree,              \* the btree object: its nodes, m_root and m_comparator
    iter,               \* a btree::iterator: m_node and m_isEnd; its m_code is vec["a"]
    log                 \* what the run pushed, popped and visited so far

vars ==
    <<sizeof_pointer, propagate, fresh, near, vec, mem, faults, last, steps, limit,
      bheap, btree, iter, log>>

----------------------------------------------------------------------------
(* Bounds of the model *)

\* Operations on constructed vectors in a run of a specification of one
\* family of operations
MaxSteps == 2

\* Operations on constructed vectors in a run of Spec, which has them all
MaxStepsAll == 1

\* push_back calls in a run of SpecAppend: past the inline capacity and the
\* second word boundary of the 64 bit build
MaxAppends == 130

\* push, emplace and pop calls in a run of SpecHeap
MaxHeapOps == 8

\* Nodes of a tree that is built of any values
MaxTreeNodes == 4

\* Nodes of a tree that is built of falling or of rising values: a path
\* longer than the inline capacity of the 32 bit build
MaxChain == 60

----------------------------------------------------------------------------
(* Layout constants, bvec.hpp:25-31 and 171-211 *)

block_digits == IF sizeof_pointer = 8 THEN 64 ELSE 32

stack_data_digits == IF sizeof_pointer = 8 THEN 128 ELSE 64

stack_capacity == IF sizeof_pointer = 8 THEN 128 - 8 ELSE 64 - 7

stack_size_bits == IF sizeof_pointer = 8 THEN 7 ELSE 6

heap_size_bits == IF sizeof_pointer = 8 THEN 35 ELSE 18

heap_capacity_bits == IF sizeof_pointer = 8 THEN 28 ELSE 13

\* x & ((1 << bits) - 1) for a count x; every count of the model is below
\* 2^31, so a field of 31 bits or more keeps it whole.
MaskBits(x, bits) == IF bits >= 31 THEN x ELSE x % (2 ^ bits)

stack_size_mask(x) == MaskBits(x, stack_size_bits)

\* A size field that holds its largest value for every count above it
heap_size_saturate(x) ==
    IF heap_size_bits < 31 /\ x >= 2 ^ heap_size_bits THEN 2 ^ heap_size_bits - 1 ELSE x

heap_size_mask(x) == MaskBits(x, heap_size_bits)

heap_capacity_mask(x) == MaskBits(x, heap_capacity_bits)

heap_capacity_max == 2 ^ heap_capacity_bits

block_round(x) == (x + (block_digits - 1)) \div block_digits

----------------------------------------------------------------------------
(* Values as sets of set-bit positions *)

Below(n) == 0 .. (n - 1)

block_mask == Below(block_digits)

stack_data_mask == Below(stack_capacity)

\* v >> k
Shr(v, k) == {p - k : p \in {q \in v : q >= k}}

\* v << k in a type of `width` digits, 0 <= k < width
ShlW(v, k, width) == {p + k : p \in {q \in v : q + k < width}}

\* block_type v << k, 0 <= k < block_digits
Shl(v, k) == ShlW(v, k, block_digits)

\* (1 << k) - 1
LowMask(k) == Below(k)

\* A shift of a block_type by k digits where the code does not keep k below
\* block_digits: undefined when it is not.  The build either takes the count
\* modulo the width (the shift instruction of x86-64 and AArch64) or
\* yields zero.
ShiftDefined(k) == k >= 0 /\ k < block_digits

ShlUB(v, k, u) ==
    IF ShiftDefined(k) THEN Shl(v, k)
    ELSE IF u = "mod" THEN Shl(v, k % block_digits) ELSE {}

ShrUB(v, k, u) ==
    IF ShiftDefined(k) THEN Shr(v, k)
    ELSE IF u = "mod" THEN Shr(v, k % block_digits) ELSE {}

----------------------------------------------------------------------------
(* The world an operation acts on: [vec, mem, faults, near, result] *)

\* The world an operation starts in: `faults` collects what this operation
\* meets, `result` is what it returns where the model keeps that
World == [vec |-> vec, mem |-> mem, faults |-> {}, near |-> near, result |-> 0]

Fault(w, f) == [w EXCEPT !.faults = @ \cup {f}]

FaultIf(w, cond, f) == IF cond THEN Fault(w, f) ELSE w

\* What memory the program does not own, or has not written, holds
Garbage == {0, 1}

GarbageWord(g) == IF g = 1 THEN block_mask ELSE {}

\* word_allocator::allocate(words): a new buffer of unspecified content.  A
\* buffer is its size in words, whether it is allocated, the digit `fill`
\* that it held when it was allocated, and the set `flips` of the bit offsets
\* that hold the other digit.
allocate(w, words, g) ==
    [w EXCEPT !.mem = Append(@, [words |-> words, live |-> TRUE, fill |-> g, flips |-> {}])]

\* The digit at bit offset q of the buffer b
Digit(b, q) == (q \in b.flips) # (b.fill = 1)

\* word_allocator::deallocate(pointer, n)
deallocate(w, p, n) ==
    LET b == w.mem[p]
        w1 == FaultIf(w, ~b.live, "double_free")
        w2 == FaultIf(w1, b.live /\ b.words # n, "dealloc_size")
    IN [w2 EXCEPT !.mem[p].live = FALSE]

\* An access to word i of buffer p
Touch(w, p, i) ==
    LET b == w.mem[p]
    IN FaultIf(FaultIf(w, ~b.live, "use_after_free"), i < 0 \/ i >= b.words, "out_of_bounds")

\* The buffer that lies behind buffer p, where the allocator of this run
\* places allocations next to each other; 0 where none does
Behind(w, p) == IF w.near /\ p < Len(w.mem) THEN p + 1 ELSE 0

\* The digit at bit offset q >= 0 of buffer p, which may lie behind its end
RdBit(w, p, q, g) ==
    LET b == w.mem[p]
        cap == b.words * block_digits
        n == Behind(w, p)
    IN IF q < cap THEN Digit(b, q)
       ELSE IF n # 0 /\ q - cap < w.mem[n].words * block_digits THEN Digit(w.mem[n], q - cap)
       ELSE g = 1

\* A store to the n digits from bit offset lo >= 0 of buffer p: digit lo + k
\* becomes set exactly when k is in content.  What of it lies behind the end
\* of the buffer lands in the buffer behind it, or in memory nothing reads.
Store(w, p, lo, n, content) ==
    LET b == w.mem[p]
        cap == b.words * block_digits
        hi == IF lo + n < cap THEN lo + n ELSE cap
        w1 == [w EXCEPT !.mem[p].flips =
                  {q \in @ : q < lo \/ q >= lo + n}
                  \cup {q \in lo .. (hi - 1) : ((q - lo) \in content) # (b.fill = 1)}]
        nx == Behind(w, p)
        nb == w.mem[nx]
        from == IF lo > cap THEN lo - cap ELSE 0
        ncap == nb.words * block_digits
        to == IF lo + n - cap < ncap THEN lo + n - cap ELSE ncap
    IN IF lo + n <= cap \/ nx = 0 THEN w1
       ELSE [w1 EXCEPT !.mem[nx].flips =
                {r \in @ : r < from \/ r >= to}
                \cup {r \in from .. (to - 1) : ((r + cap - lo) \in content) # (nb.fill = 1)}]

\* pointer[i] as a value
RdWord(w, p, i, g) ==
    LET b == w.mem[p]
    IN IF i >= 0 /\ i < b.words
       THEN {k \in block_mask : Digit(b, i * block_digits + k)}
       ELSE IF i < 0 THEN GarbageWord(g)
       ELSE {k \in block_mask : RdBit(w, p, i * block_digits + k, g)}

\* pointer[i] = val
WrWord(w, p, i, val) ==
    LET w1 == Touch(w, p, i)
    IN IF i >= 0 THEN Store(w1, p, i * block_digits, block_digits, val) ELSE w1

\* for (ii = from; ii < to; ++ii) pointer[ii] = fill
FillWords(w, p, from, to, value) ==
    LET w1 == Touch(Touch(w, p, from), p, to - 1)
        n == (to - from) * block_digits
    IN IF from >= to THEN w
       ELSE Store(w1, p, from * block_digits, n, IF value THEN Below(n) ELSE {})

\* __builtin_memcpy of nbits/8 bytes from bit offset slo of buffer src to bit
\* offset dlo of buffer dst.  A negative length is a size_t near its maximum:
\* the copy runs off both buffers.
CopyBits(w, dst, dlo, src, slo, nbits, g) ==
    LET d == w.mem[dst]
        s == w.mem[src]
        dcap == d.words * block_digits
        scap == s.words * block_digits
        n == IF nbits < 0 THEN dcap + scap ELSE nbits
        w1 == FaultIf(w, nbits < 0 \/ slo + n > scap \/ dlo + n > dcap, "out_of_bounds")
        w2 == FaultIf(w1, n > 0 /\ (~d.live \/ ~s.live), "use_after_free")
    IN Store(w2, dst, dlo, n, {k \in Below(n) : RdBit(w, src, slo + k, g)})

----------------------------------------------------------------------------
(* m_data: the union of stack_type and heap_type, bvec.hpp:172-226 *)

\* m_data.stack = {...}
stack_type(size, data) ==
    [is_heap |-> FALSE, size |-> size, data |-> data, capacity |-> 0, pointer |-> 0]

\* m_data.heap = {...}
heap_type(size, capacity, pointer) ==
    [is_heap |-> TRUE, size |-> size, data |-> {}, capacity |-> capacity, pointer |-> pointer]

\* the members of m_data of a vector record
m_data(v) == [is_heap |-> v.is_heap, size |-> v.size, data |-> v.data,
              capacity |-> v.capacity, pointer |-> v.pointer]

\* m_data = d, m_wordAllocator kept
SetData(w, x, d) ==
    [w EXCEPT !.vec[x] = [is_heap |-> d.is_heap, size |-> d.size, data |-> d.data,
                          capacity |-> d.capacity, pointer |-> d.pointer,
                          alloc |-> w.vec[x].alloc, alive |-> w.vec[x].alive]]

\* bvec::capacity
capacity(v) == IF v.is_heap THEN v.capacity * block_digits ELSE stack_capacity

\* bvec::size
size(v) == v.size

----------------------------------------------------------------------------
(* Capacity and growth, bvec.hpp:250-278 and 354-512 *)

\* clear that returns the vector to the inline mode
clear_to_stack(w, x) == SetData(w, x, stack_type(0, {}))

\* bvec::clear
clear(w, x) == [w EXCEPT !.vec[x].size = 0]

\* bvec::reserve_heap
reserve_heap(w, x, newCapacity, g) ==
    LET v == w.vec[x]
        words == block_round(newCapacity)
        w1 == allocate(w, words, g)
        pointer == Len(w1.mem)
        w2 == CopyBits(w1, pointer, 0, v.pointer, 0, v.capacity * block_digits, g)
        w3 == deallocate(w2, v.pointer, v.capacity)
    IN IF words = v.capacity THEN w
       ELSE [w3 EXCEPT !.vec[x].capacity = heap_capacity_mask(words),
                       !.vec[x].pointer = pointer]

\* move_to_heap with the second word of the inline data left out
move_to_heap_first_word(w, x, newCapacity, g) ==
    LET v == w.vec[x]
        words == block_round(newCapacity)
        w1 == allocate(w, words, g)
        pointer == Len(w1.mem)
        w2 == WrWord(w1, pointer, 0, v.data \cap block_mask)
    IN SetData(w2, x, heap_type(heap_size_mask(v.size), heap_capacity_mask(words), pointer))

\* bvec::move_to_heap
move_to_heap(w, x, newCapacity, g) ==
    LET v == w.vec[x]
        words == block_round(newCapacity)
        w1 == allocate(w, words, g)
        pointer == Len(w1.mem)
        w2 == WrWord(w1, pointer, 0, v.data \cap block_mask)
        w3 == WrWord(w2, pointer, 1, Shr(v.data, block_digits) \cap block_mask)
    IN SetData(w3, x, heap_type(heap_size_mask(v.size), heap_capacity_mask(words), pointer))

\* bvec::reserve
reserve(w, x, newCapacity, g) ==
    IF newCapacity <= capacity(w.vec[x]) THEN w
    ELSE IF w.vec[x].is_heap THEN reserve_heap(w, x, newCapacity, g)
    ELSE move_to_heap(w, x, newCapacity, g)

\* FillTail that stores the fill alone: pointer[tailWord] = fill << tailSize
FillTail_assign(w, p, tailWord, tailSize, value, g) ==
    WrWord(w, p, tailWord, IF value THEN Shl(block_mask, tailSize) ELSE {})

\* pointer[tailWord] |= (block_mask << tailSize), or &= ~(block_mask << tailSize)
FillTail(w, p, tailWord, tailSize, value, g) ==
    LET old == RdWord(w, p, tailWord, g)
    IN WrWord(w, p, tailWord,
              IF value THEN old \cup Shl(block_mask, tailSize)
              ELSE old \ Shl(block_mask, tailSize))

\* resize_heap that reallocates to the word count of every new size
resize_heap_to_fit(w, x, count, value, g) ==
    LET v == w.vec[x]
        words == block_round(count)
        kept == IF words < v.capacity THEN words ELSE v.capacity
        w1 == allocate(w, words, g)
        pointer == Len(w1.mem)
        w2 == CopyBits(w1, pointer, 0, v.pointer, 0, kept * block_digits, g)
        w3 == deallocate(w2, v.pointer, v.capacity)
    IN IF words # v.capacity
       THEN SetData(w3, x, heap_type(heap_size_mask(count), heap_capacity_mask(words), pointer))
       ELSE [w EXCEPT !.vec[x].size = heap_size_mask(count)]

\* bvec::resize_heap
resize_heap(w, x, count, value, g) ==
    LET v == w.vec[x]
        words == block_round(count)
        tailWord == v.size \div block_digits
        tailSize == v.size % block_digits
        \* words > capacity: reallocate
        w1 == allocate(w, words, g)
        pointer == Len(w1.mem)
        w2 == CopyBits(w1, pointer, 0, v.pointer, 0, v.capacity * block_digits, g)
        w3 == deallocate(w2, v.pointer, v.capacity)
        w4 == SetData(w3, x, heap_type(heap_size_mask(count), heap_capacity_mask(words), pointer))
        w5 == IF tailSize # 0 THEN FillTail(w4, pointer, tailWord, tailSize, value, g) ELSE w4
        from == IF tailSize # 0 THEN tailWord + 1 ELSE tailWord
        w6 == FillWords(w5, pointer, from, words, value)
        \* otherwise: grow within the tail word
        w7 == IF count > v.size THEN FillTail(w, v.pointer, tailWord, tailSize, value, g) ELSE w
    IN IF words > v.capacity THEN w6
       ELSE [w7 EXCEPT !.vec[x].size = heap_size_mask(count)]

\* bvec::grow_to_heap
grow_to_heap(w, x, count, value, g) ==
    LET v == w.vec[x]
        words == block_round(count)
        tailWord == v.size \div block_digits
        tailSize == v.size % block_digits
        w1 == allocate(w, words, g)
        pointer == Len(w1.mem)
        w2 == IF tailWord # 0 THEN WrWord(w1, pointer, 0, v.data \cap block_mask) ELSE w1
        high == Shr(v.data, block_digits) \cap block_mask
        w3 == IF tailSize # 0
              THEN WrWord(w2, pointer, tailWord,
                          IF value THEN Shl(block_mask, tailSize) \cup high ELSE high)
              ELSE w2
        from == IF tailSize # 0 THEN tailWord + 1 ELSE tailWord
        w4 == FillWords(w3, pointer, from, words, value)
    IN SetData(w4, x, heap_type(heap_size_mask(count), heap_capacity_mask(words), pointer))

\* bvec::resize_stack
resize_stack(w, x, count, value) ==
    LET v == w.vec[x]
        data == IF value
                THEN v.data \cup ShlW(stack_data_mask, v.size, stack_data_digits)
                ELSE v.data \ ShlW(stack_data_mask, v.size, stack_data_digits)
        w1 == IF count > v.size
              THEN [w EXCEPT !.vec[x].data = data \cap stack_data_mask]
              ELSE w
    IN [w1 EXCEPT !.vec[x].size = stack_size_mask(count)]

\* bvec::resize
resize(w, x, count, value, g) ==
    IF w.vec[x].is_heap THEN resize_heap(w, x, count, value, g)
    ELSE IF count > stack_capacity THEN grow_to_heap(w, x, count, value, g)
    ELSE resize_stack(w, x, count, value)

\* bvec::push_back
push_back(w, x, value, g) == resize(w, x, size(w.vec[x]) + 1, value, g)

\* bvec::pop_back: --size in a bit field of the mode's width
pop_back(w, x) ==
    IF w.vec[x].is_heap
    THEN [w EXCEPT !.vec[x].size = heap_size_mask(@ - 1)]
    ELSE [w EXCEPT !.vec[x].size = stack_size_mask(@ - 1)]

\* flip that inverts the first word of a heap buffer only
flip_first_word(w, x) ==
    LET v == w.vec[x]
        b == w.mem[v.pointer]
    IN IF v.is_heap
       THEN Store(w, v.pointer, 0, block_digits, {k \in block_mask : ~Digit(b, k)})
       ELSE [w EXCEPT !.vec[x].data = stack_data_mask \ @]

\* bvec::flip
flip(w, x) ==
    LET v == w.vec[x]
        words == block_round(v.size)
        b == w.mem[v.pointer]
        w1 == IF words > 0 THEN Touch(Touch(w, v.pointer, 0), v.pointer, words - 1) ELSE w
        n == (IF words < b.words THEN words ELSE b.words) * block_digits
    IN IF v.is_heap
       THEN Store(w1, v.pointer, 0, n, {k \in Below(n) : ~Digit(b, k)})
       ELSE [w EXCEPT !.vec[x].data = stack_data_mask \ @]

----------------------------------------------------------------------------
(* Element access, bvec.hpp:514-556 *)

\* set_at that can only set a bit
set_at_true(w, x, pos, value, g) ==
    LET v == w.vec[x]
        word == pos \div block_digits
        offset == pos % block_digits
        old == RdWord(w, v.pointer, word, g)
    IN IF v.is_heap
       THEN WrWord(w, v.pointer, word, old \cup {offset})
       ELSE [w EXCEPT !.vec[x].data = (@ \cup {pos}) \cap stack_data_mask]

\* bvec::set_at
set_at(w, x, pos, value, g) ==
    LET v == w.vec[x]
        word == pos \div block_digits
        offset == pos % block_digits
        old == RdWord(w, v.pointer, word, g)
    IN IF v.is_heap
       THEN WrWord(w, v.pointer, word, IF value THEN old \cup {offset} ELSE old \ {offset})
       ELSE [w EXCEPT !.vec[x].data = (IF value THEN @ \cup {pos} ELSE @ \ {pos}) \cap stack_data_mask]

\* bvec::get_at
get_at(w, x, pos, g) ==
    LET v == w.vec[x]
        word == pos \div block_digits
        offset == pos % block_digits
    IN IF v.is_heap THEN offset \in RdWord(w, v.pointer, word, g)
       ELSE pos \in v.data

\* bvec::flip_at
flip_at(w, x, pos, g) ==
    LET v == w.vec[x]
        word == pos \div block_digits
        offset == pos % block_digits
        prev == RdWord(w, v.pointer, word, g)
    IN IF v.is_heap
       THEN WrWord(w, v.pointer, word, (prev \ {offset}) \cup ({offset} \ prev))
       ELSE [w EXCEPT !.vec[x].data = ((@ \ {pos}) \cup ({pos} \ @)) \cap stack_data_mask]

----------------------------------------------------------------------------
(* erase, bvec.hpp:779-902.  `u` chooses what an undefined shift yields. *)

carry_bit == {block_digits - 1}

\* The loop of erase(pos), bvec.hpp:788-794: shifts the words lastWord down
\* to posWord + 1 right by one digit; yields the world and the last carry.
RECURSIVE erase_carry_loop(_, _, _, _, _, _)
erase_carry_loop(w, p, lastWord, posWord, carry, g) ==
    IF lastWord > posWord
    THEN LET old == RdWord(w, p, lastWord, g)
             w1 == WrWord(w, p, lastWord, Shr(old, 1) \cup (IF carry THEN carry_bit ELSE {}))
         IN erase_carry_loop(w1, p, lastWord - 1, posWord, 0 \in old, g)
    ELSE [w |-> w, carry |-> carry]

\* bvec::erase(const_iterator pos)
erase(w, x, pos, g, u) ==
    LET v == w.vec[x]
        posWord == pos \div block_digits
        posWordSize == pos % block_digits
        r == erase_carry_loop(w, v.pointer, v.size \div block_digits, posWord, FALSE, g)
        old == RdWord(r.w, v.pointer, posWord, g)
        upper == ShrUB(old, posWordSize + 1, u)
        lower == old \cap LowMask(posWordSize)
        w1 == FaultIf(r.w, ~ShiftDefined(posWordSize + 1), "shift")
        w2 == WrWord(w1, v.pointer, posWord,
                     (IF r.carry THEN carry_bit ELSE {}) \cup Shl(upper, posWordSize) \cup lower)
        supper == Shr(v.data, pos + 1)
        slower == v.data \cap LowMask(pos)
    IN IF v.is_heap THEN w2
       ELSE [w EXCEPT !.vec[x].data = (ShlW(supper, pos, stack_data_digits) \cup slower)
                                          \cap stack_data_mask,
                      !.vec[x].size = stack_size_mask(@ - 1)]

\* The loop of erase(first, last), bvec.hpp:875-878
RECURSIVE erase_shift_loop(_, _, _, _, _, _, _, _)
erase_shift_loop(w, p, firstBlock, lastBlock, lastBit, ii, blockSpan, g) ==
    IF ii < blockSpan
    THEN LET w1 == Touch(Touch(w, p, lastBlock + ii), p, lastBlock + ii + 1)
             w2 == WrWord(w1, p, firstBlock + ii,
                          Shr(RdWord(w, p, lastBlock + ii, g), lastBit)
                          \cup Shl(RdWord(w, p, lastBlock + ii + 1, g), block_digits - lastBit))
         IN erase_shift_loop(w2, p, firstBlock, lastBlock, lastBit, ii + 1, blockSpan, g)
    ELSE w

\* erase(first, last) in heap mode with last <= size: "Handle first block",
\* bvec.hpp:813-855.  Yields the world and the working boundaries.
erase_first_block(w, x, first, last_, g, u) ==
    LET v == w.vec[x]
        p == v.pointer
        firstBlock == first \div block_digits
        firstBit == first % block_digits
        lastBlock == last_ \div block_digits
        lastBit == last_ % block_digits
        endBlock == block_round(v.size)
        lowerMask == LowMask(firstBit)
        newLastBit == (lastBit + block_digits - firstBit) % block_digits
        \* firstBlock == lastBlock
        upperMask == Shl(block_mask, lastBit)
        dA == RdWord(w, p, firstBlock, g)
        wA1 == WrWord(w, p, firstBlock,
                      (dA \cap lowerMask) \cup Shr(dA \cap upperMask, lastBit - firstBit))
        kA == block_digits - lastBit - firstBit
        wA2 == IF lastBlock + 1 < endBlock
               THEN WrWord(FaultIf(Touch(wA1, p, lastBlock + 1), ~ShiftDefined(kA), "shift"),
                           p, firstBlock,
                           RdWord(wA1, p, firstBlock, g)
                           \cup ShlUB(RdWord(wA1, p, lastBlock + 1, g), kA, u))
               ELSE wA1
        \* firstBit != 0
        wB1 == WrWord(Touch(w, p, lastBlock), p, firstBlock,
                      (RdWord(w, p, firstBlock, g) \cap lowerMask)
                      \cup Shl(Shr(RdWord(w, p, lastBlock, g), lastBit), firstBit))
        wB2 == IF firstBit < lastBit /\ lastBlock + 1 < endBlock
               THEN WrWord(Touch(wB1, p, lastBlock + 1), p, firstBlock,
                           RdWord(wB1, p, firstBlock, g)
                           \cup Shl(RdWord(wB1, p, lastBlock + 1, g),
                                    firstBit + block_digits - lastBit))
               ELSE wB1
    IN IF firstBlock = lastBlock
       THEN [w |-> wA2, firstBlock |-> firstBlock + 1, lastBlock |-> lastBlock + 1,
             firstBit |-> 0, lastBit |-> newLastBit]
       ELSE IF firstBit # 0
       THEN [w |-> wB2, firstBlock |-> firstBlock + 1, lastBlock |-> lastBlock + 1,
             firstBit |-> 0, lastBit |-> newLastBit]
       ELSE [w |-> w, firstBlock |-> firstBlock, lastBlock |-> lastBlock,
             firstBit |-> firstBit, lastBit |-> lastBit]

\* erase(first, last) in heap mode with last <= size: "Handle remaining
\* blocks", bvec.hpp:857-882
erase_remaining_blocks(r, x, g) ==
    LET v == r.w.vec[x]
        p == v.pointer
        bytes == block_digits \div 8
        firstByte == r.firstBlock * bytes + r.firstBit \div 8
        lastByte == r.lastBlock * bytes + r.lastBit \div 8
        endByte == (v.size + 7) \div 8
        numBytes == endByte - lastByte
        blockSpan == r.lastBlock - r.firstBlock
        w1 == erase_shift_loop(r.w, p, r.firstBlock, r.lastBlock, r.lastBit, 0, blockSpan, g)
        w2 == WrWord(Touch(w1, p, r.lastBlock + blockSpan), p, r.firstBlock + blockSpan,
                     Shr(RdWord(w1, p, r.lastBlock + blockSpan, g), r.lastBit))
    IN IF r.firstBit % 8 = 0 /\ r.lastBit % 8 = 0
       THEN CopyBits(r.w, p, firstByte * 8, p, lastByte * 8, numBytes * 8, g)
       ELSE IF r.lastBlock > r.firstBlock THEN w2
       ELSE r.w

\* bvec::erase(const_iterator first, const_iterator last)
erase_range(w, x, first, last_, g, u) ==
    LET v == w.vec[x]
        w1 == erase_remaining_blocks(erase_first_block(w, x, first, last_, g, u), x, g)
        lower == v.data \cap LowMask(first)
        upper == Shr(v.data, last_)
    IN IF v.is_heap
       THEN IF last_ > v.size
            THEN [w EXCEPT !.vec[x].size = heap_size_mask(first)]
            ELSE [w1 EXCEPT !.vec[x].size = heap_size_mask(v.size - (last_ - first))]
       ELSE IF last_ > v.size
            THEN [w EXCEPT !.vec[x].size = stack_size_mask(first)]
            ELSE [w EXCEPT !.vec[x].data = (ShlW(upper, first, stack_data_digits) \cup lower)
                                               \cap stack_data_mask,
                           !.vec[x].size = stack_size_mask(v.size - (last_ - first))]

----------------------------------------------------------------------------
(* Assignment, bvec.hpp:109-162 *)

\* bvec::assign(size_type count, bool value)
assign_fill(w, x, count, value, g) ==
    LET v == w.vec[x]
        w1 == IF v.is_heap THEN deallocate(w, v.pointer, v.capacity) ELSE w
        w2 == SetData(w1, x, stack_type(0, {}))
    IN resize(w2, x, count, value, g)

\* bvec::assign(InputIt first, InputIt last) for the iterators of a bvec:
\* first and last_ are positions in the vector y (first.m_owner)
assign_range(w, x, y, first, last_, g, u) ==
    LET v == w.vec[x]
        w1 == IF v.is_heap THEN deallocate(w, v.pointer, v.capacity) ELSE w
        other == w1.vec[y]
        beginWord == first \div block_digits
        beginBit == first % block_digits
        endWord == block_round(last_)
        endBit == last_ % block_digits
        words == endWord - beginWord
        w2 == allocate(w1, words, g)
        pointer == Len(w2.mem)
        w3 == SetData(w2, x, heap_type(heap_size_mask(words * block_digits - endBit),
                                       heap_capacity_mask(words), pointer))
        w4 == CopyBits(w3, pointer, 0, w3.vec[y].pointer, beginWord * block_digits,
                       words * block_digits, g)
    IN IF other.is_heap
       THEN erase_range(w4, x, 0, beginBit, g, u)
       ELSE SetData(w1, x, stack_type(stack_size_mask(last_ - first), Shr(other.data, first)))

\* bvec::assign(InputIt first, InputIt last) for any other iterator, and
\* assign(std::initializer_list<bool>): init is a sequence of booleans
\* while (first != last) push_back(*first++), for the elements lo .. hi of
\* init; the loop is split in halves to bound the depth of the evaluation
RECURSIVE push_back_all(_, _, _, _, _, _)
push_back_all(w, x, init, lo, hi, g) ==
    IF lo > hi THEN w
    ELSE IF lo = hi THEN push_back(w, x, init[lo], g)
    ELSE LET mid == (lo + hi) \div 2
             w1 == push_back_all(w, x, init, lo, mid, g)
         IN IF w1.vec[x].alive THEN push_back_all(w1, x, init, mid + 1, hi, g) ELSE w1

assign_list(w, x, init, g) == push_back_all(clear(w, x), x, init, 1, Len(init), g)

----------------------------------------------------------------------------
(* Construction, destruction, copy and move, bvec.hpp:33-107 *)

\* m_data{}, m_wordAllocator{alloc}
construct(w, x, alloc) ==
    [w EXCEPT !.vec[x] = [is_heap |-> FALSE, size |-> 0, data |-> {}, capacity |-> 0,
                          pointer |-> 0, alloc |-> alloc, alive |-> TRUE]]

\* bvec::bvec(size_type count, bool value, const Allocator&)
bvec_fill(w, x, count, value, alloc, g) == resize(construct(w, x, alloc), x, count, value, g)

\* bvec::bvec(std::initializer_list<bool>, const Allocator&)
bvec_list(w, x, init, alloc, g) == assign_list(construct(w, x, alloc), x, init, g)

\* bvec::bvec(InputIt first, InputIt last, const Allocator&)
bvec_range(w, x, y, first, last_, alloc, g, u) ==
    assign_range(construct(w, x, alloc), x, y, first, last_, g, u)

\* bvec::bvec(const bvec& other)
bvec_copy(w, x, y, g, u) ==
    assign_range(construct(w, x, w.vec[y].alloc), x, y, 0, size(w.vec[y]), g, u)

\* bvec::bvec(const bvec& other, const Allocator& alloc)
bvec_copy_alloc(w, x, y, alloc, g, u) ==
    assign_range(construct(w, x, alloc), x, y, 0, size(w.vec[y]), g, u)

\* bvec::bvec(bvec&& other)
bvec_move(w, x, y) ==
    LET w1 == SetData(construct(w, x, w.vec[y].alloc), x, m_data(w.vec[y]))
    IN SetData(w1, y, stack_type(0, {}))

\* bvec::bvec(bvec&& other, const Allocator& alloc)
bvec_move_alloc(w, x, y, alloc, g, u) ==
    LET w0 == construct(w, x, alloc)
        w1 == SetData(w0, x, m_data(w.vec[y]))
    IN IF alloc = w.vec[y].alloc
       THEN SetData(w1, y, stack_type(0, {}))
       ELSE assign_range(w0, x, y, 0, size(w.vec[y]), g, u)

\* bvec::~bvec
destroy(w, x) ==
    LET v == w.vec[x]
        w1 == IF v.is_heap THEN deallocate(w, v.pointer, v.capacity) ELSE w
    IN [w1 EXCEPT !.vec[x].alive = FALSE]

\* bvec::operator=(const bvec& other)
copy_assign(w, x, y, g, u) == assign_range(w, x, y, 0, size(w.vec[y]), g, u)

\* bvec::operator=(bvec&& other); pocca is
\* propagate_on_container_copy_assignment of the word allocator
move_assign(w, x, y, pocca, g, u) ==
    LET v == w.vec[x]
        w1 == IF v.is_heap THEN deallocate(w, v.pointer, v.capacity) ELSE w
        wP == [w1 EXCEPT !.vec[x].alloc = w.vec[y].alloc]
        take(ww) == SetData(SetData(ww, x, m_data(ww.vec[y])), y, stack_type(0, {}))
    IN IF pocca THEN take(wP)
       ELSE IF v.alloc = w.vec[y].alloc THEN take(w1)
       ELSE assign_range(w, x, y, 0, size(w.vec[y]), g, u)

----------------------------------------------------------------------------
(* swap, bvec.hpp:280-352 *)

\* n digits read from bit offset lo of buffer p, as a value
RdBits(w, p, lo, n, g) == {q \in Below(n) : RdBit(w, p, lo + q, g)}

\* n digits of the value val written at bit offset lo of buffer p
WrBits(w, p, lo, n, val) ==
    LET b == w.mem[p]
        w1 == FaultIf(w, n > 0 /\ lo + n > b.words * block_digits, "out_of_bounds")
        w2 == FaultIf(w1, n > 0 /\ ~b.live, "use_after_free")
    IN Store(w2, p, lo, n, val \cap Below(n))

\* std::swap(m_data, other.m_data)
swap_data(w, x, y) == SetData(SetData(w, x, m_data(w.vec[y])), y, m_data(w.vec[x]))

\* swap, one side on the heap (h) and the other on the stack (s), the heap
\* side's size within stack_capacity: bvec.hpp:297-309 and 314-326
swap_heap_stack(w, h, s, g) ==
    LET hv == w.vec[h]
        sv == w.vec[s]
        stackData == sv.data
        heapData == RdBits(w, hv.pointer, 0, 64, g)      \* std::uint64_t
        w1 == FaultIf(w, 64 > hv.capacity * block_digits, "out_of_bounds")
        w2 == [w1 EXCEPT !.vec[s].data = heapData \cap stack_data_mask]
        w3 == WrBits(w2, hv.pointer, 0, stack_data_digits, stackData)
    IN [w3 EXCEPT !.vec[h].size = heap_size_mask(sv.size),
                  !.vec[s].size = stack_size_mask(hv.size)]

\* swap, both on the heap, allocators unequal: bvec.hpp:331-350
swap_heap_heap(w, x, y, g) ==
    LET xv == w.vec[x]
        yv == w.vec[y]
        thisWord == block_round(xv.size)
        otherWord == block_round(yv.size)
        commonWords == IF thisWord < otherWord THEN thisWord ELSE otherWord
        n == commonWords * block_digits
        w1 == WrBits(WrBits(w, xv.pointer, 0, n, RdBits(w, yv.pointer, 0, n, g)),
                     yv.pointer, 0, n, RdBits(w, xv.pointer, 0, n, g))
        w1r == FaultIf(w1, n > xv.capacity * block_digits \/ n > yv.capacity * block_digits,
                       "out_of_bounds")
        \* thisWord > otherWord
        wA == reserve_heap(w1r, y, xv.size, g)
        wA2 == CopyBits(wA, wA.vec[y].pointer, otherWord * block_digits,
                        xv.pointer, otherWord * block_digits,
                        (thisWord - otherWord) * block_digits, g)
        \* thisWord < otherWord
        wB == reserve_heap(w1r, x, yv.size, g)
        wB2 == CopyBits(wB, wB.vec[x].pointer, thisWord * block_digits,
                        yv.pointer, thisWord * block_digits,
                        (otherWord - thisWord) * block_digits, g)
        w2 == IF thisWord > otherWord THEN wA2
              ELSE IF thisWord < otherWord THEN wB2 ELSE w1r
    IN [w2 EXCEPT !.vec[x].size = heap_size_mask(yv.size),
                  !.vec[y].size = heap_size_mask(xv.size)]

\* bvec::swap; pocs is propagate_on_container_swap of the word allocator
swap(w, x, y, pocs, g) ==
    LET xv == w.vec[x]
        yv == w.vec[y]
        wP == [swap_data(w, x, y) EXCEPT !.vec[x].alloc = yv.alloc, !.vec[y].alloc = xv.alloc]
    IN IF pocs THEN wP
       ELSE IF xv.alloc = yv.alloc THEN swap_data(w, x, y)
       ELSE IF ~xv.is_heap /\ ~yv.is_heap THEN swap_data(w, x, y)
       ELSE IF xv.is_heap /\ ~yv.is_heap
            THEN IF xv.size <= stack_capacity THEN swap_heap_stack(w, x, y, g)
                 ELSE swap_heap_heap(reserve(w, y, xv.size, g), x, y, g)
       ELSE IF ~xv.is_heap /\ yv.is_heap
            THEN IF yv.size <= stack_capacity THEN swap_heap_stack(w, y, x, g)
                 ELSE swap_heap_heap(reserve(w, x, yv.size, g), x, y, g)
       ELSE swap_heap_heap(w, x, y, g)

----------------------------------------------------------------------------
(* Comparison, bvec.hpp:905-948 *)

\* The booleans operator[] reads at positions 0 .. size-1, as the set of the
\* positions that read true
Bits(w, x) ==
    LET v == w.vec[x]
    IN {pos \in Below(v.size) : get_at(w, x, pos, 0)}

\* operator==(lhs, rhs)
Equal(w, x, y) ==
    /\ size(w.vec[x]) = size(w.vec[y])
    /\ \A ii \in Below(size(w.vec[x])) : get_at(w, x, ii, 0) = get_at(w, y, ii, 0)

\* operator<=> that compares the positions both operands have only
three_way_shared(w, x, y) ==
    LET lhsSize == size(w.vec[x])
        rhsSize == size(w.vec[y])
        shared == Below(IF lhsSize < rhsSize THEN lhsSize ELSE rhsSize)
        differ == {ii \in shared : get_at(w, x, ii, 0) # get_at(w, y, ii, 0)}
        top == CHOOSE ii \in differ : \A jj \in differ : jj <= ii
    IN IF differ = {} THEN "equivalent"
       ELSE IF get_at(w, x, top, 0) THEN "greater"
       ELSE "less"

\* operator<=> that takes the longer operand for the greater
three_way_by_size(w, x, y) ==
    IF size(w.vec[x]) > size(w.vec[y]) THEN "greater"
    ELSE IF size(w.vec[x]) < size(w.vec[y]) THEN "less"
    ELSE "equivalent"

\* operator<=>(lhs, rhs): the first loop returns greater at a set bit of lhs
\* at or above rhs.size(), the second less at a set bit of rhs at or above
\* lhs.size(), the third decides at the highest position where the two differ
three_way(w, x, y) ==
    LET lhs == Bits(w, x)
        rhs == Bits(w, y)
        lhsSize == size(w.vec[x])
        rhsSize == size(w.vec[y])
        shared == Below(IF lhsSize < rhsSize THEN lhsSize ELSE rhsSize)
        differ == {ii \in shared : (ii \in lhs) # (ii \in rhs)}
        top == CHOOSE ii \in differ : \A jj \in differ : jj <= ii
    IN IF \E ii \in lhs : ii >= rhsSize THEN "greater"
       ELSE IF \E ii \in rhs : ii >= lhsSize THEN "less"
       ELSE IF differ = {} THEN "equivalent"
       ELSE IF top \in lhs THEN "greater"
       ELSE "less"

----------------------------------------------------------------------------
(* bvec_cast and the functions of namespace std, bvec.hpp:950-1044 *)

\* std::numeric_limits<unsigned int>::digits
unsigned_int_digits == 32

\* std::numeric_limits<std::size_t>::digits
size_t_digits == IF sizeof_pointer = 8 THEN 64 ELSE 32

\* cast that leaves out the mask of the final word
cast_whole_word(w, x, digits, pos, g, u) ==
    LET v == w.vec[x]
        val == IF v.is_heap THEN RdBits(w, v.pointer, pos * digits, digits, g)
               ELSE Shr(v.data, pos * digits)
    IN [w EXCEPT !.result = val \cap Below(digits)]

\* bvec_cast_helper::cast<T>(c, pos) for an unsigned T of `digits` digits:
\* the value is the result of the world it yields
cast(w, x, digits, pos, g, u) ==
    LET v == w.vec[x]
        lastWord == v.size \div digits
        bits == v.size % digits
        mask == IF pos = lastWord THEN ShrUB(block_mask, block_digits - bits, u)
                ELSE block_mask
        b == w.mem[v.pointer]
        w1 == FaultIf(w, pos = lastWord /\ ~ShiftDefined(block_digits - bits), "shift")
        w2 == FaultIf(w1, v.is_heap /\ (pos + 1) * digits > b.words * block_digits,
                      "out_of_bounds")
        w3 == FaultIf(w2, v.is_heap /\ ~b.live, "use_after_free")
        val == IF v.is_heap THEN RdBits(w, v.pointer, pos * digits, digits, g)
               ELSE Shr(v.data, pos * digits)
    IN [w3 EXCEPT !.result = val \cap mask \cap Below(digits)]

\* for (ii = 0; ii < lastWord; ++ii)
\*     popCount += __builtin_popcount(bvec_cast<unsigned int>(c, ii))
RECURSIVE popcount_loop(_, _, _, _, _, _, _)
popcount_loop(w, x, ii, lastWord, popCount, g, u) ==
    IF ii < lastWord
    THEN LET w1 == cast(w, x, unsigned_int_digits, ii, g, u)
         IN popcount_loop(w1, x, ii + 1, lastWord, popCount + Cardinality(w1.result), g, u)
    ELSE [w EXCEPT !.result = popCount]

\* std::erase(bvec& c, bool value)
std_erase(w, x, value, g, u) ==
    LET v == w.vec[x]
        lastWord == (v.size + size_t_digits - 1) \div size_t_digits
        w1 == popcount_loop(w, x, 0, lastWord, 0, g, u)
        popCount == w1.result
        removed == v.size - popCount
    IN IF value
       THEN [assign_fill(w1, x, v.size - popCount, FALSE, g) EXCEPT !.result = popCount]
       ELSE [assign_fill(w1, x, popCount, TRUE, g) EXCEPT !.result = removed]

\* The predicates erase_if is called with
Preds == {"is_true", "is_false", "always"}

pred(pr, bit) ==
    IF pr = "is_true" THEN bit
    ELSE IF pr = "is_false" THEN ~bit
    ELSE TRUE

\* One pass of the loop of std::erase_if, bvec.hpp:1021-1027, from the loop
\* state s = [w, iter, done].  Where erase(iter) leaves the vector as it was,
\* the loop makes the same call for ever: the function does not return.
erase_if_step(s, x, pr, g, u) ==
    LET w1 == erase(s.w, x, s.iter, g, u)
    IN IF s.done THEN s
       ELSE IF s.iter = size(s.w.vec[x]) THEN [s EXCEPT !.done = TRUE]
       ELSE IF pred(pr, get_at(s.w, x, s.iter, g))
       THEN IF w1.vec = s.w.vec /\ w1.mem = s.w.mem
            THEN [s EXCEPT !.w = Fault(w1, "no_return"), !.done = TRUE]
            ELSE [s EXCEPT !.w = w1]
       ELSE [s EXCEPT !.iter = @ + 1]

\* Up to n passes of the loop, the first half of them and then the rest
RECURSIVE erase_if_loop(_, _, _, _, _, _)
erase_if_loop(s, x, pr, g, u, n) ==
    LET half == erase_if_loop(s, x, pr, g, u, n \div 2)
    IN IF n = 0 \/ s.done THEN s
       ELSE IF n = 1 THEN erase_if_step(s, x, pr, g, u)
       ELSE IF half.done THEN half
       ELSE erase_if_loop(half, x, pr, g, u, n - n \div 2)

\* std::erase_if(bvec& c, Pred pred).  The loop is over or at a pass that
\* changes nothing within `passes` passes: at one position an erase that
\* changes the vector shifts what lies above it, which is `digits` bits at
\* most, and there are size() positions.
erase_if(w, x, pr, g, u) ==
    LET v == w.vec[x]
        startSize == size(v)
        digits == IF v.is_heap THEN (w.mem[v.pointer].words + 1) * block_digits
                  ELSE stack_data_digits
        passes == (startSize + 1) * (digits + 2)
        s == erase_if_loop([w |-> w, iter |-> 0, done |-> FALSE], x, pr, g, u, passes)
    IN [s.w EXCEPT !.result = startSize - size(s.w.vec[x])]

\* A count below 2^31 as a value
ToValue(n) == {i \in Below(31) : (n \div (2 ^ i)) % 2 = 1}

\* a + b in std::size_t
Add(a, b) ==
    LET carry[i \in 0 .. size_t_digits] ==
            IF i = 0 THEN FALSE
            ELSE \/ (i - 1) \in a /\ (i - 1) \in b
                 \/ carry[i - 1] /\ ((i - 1) \in a \/ (i - 1) \in b)
    IN {i \in Below(size_t_digits) : ((i \in a) # (i \in b)) # carry[i]}

\* v * block_digits in std::size_t: block_digits is 2^6 or 2^5
TimesBlockDigits(v) == ShlW(v, IF sizeof_pointer = 8 THEN 6 ELSE 5, size_t_digits)

\* for (ii = 0; ii < lastWord; ++ii)
\*     result = result * bvec_block_digits + bvec_cast<std::size_t>(key, ii)
RECURSIVE hash_loop(_, _, _, _, _, _)
hash_loop(w, x, ii, lastWord, g, u) ==
    IF ii < lastWord
    THEN LET result == w.result
             w1 == cast(w, x, size_t_digits, ii, g, u)
         IN hash_loop([w1 EXCEPT !.result = Add(TimesBlockDigits(result), w1.result)],
                      x, ii + 1, lastWord, g, u)
    ELSE w

\* std::hash<bvec>::operator()
hash(w, x, g, u) ==
    LET v == w.vec[x]
        lastWord == (v.size + size_t_digits - 1) \div size_t_digits
    IN hash_loop([w EXCEPT !.result = ToValue(v.size)], x, 0, lastWord, g, u)

----------------------------------------------------------------------------
(* bheap, bheap.hpp:17-150.  The container m_heap is a sequence; an iterator *)
(* into it is its distance from begin(), and end() is the length.           *)

\* The Compare template argument: std::less and std::greater
Compares == {"less", "greater"}

\* m_comparator(l, r)
compare(c, l, r) == IF c = "less" THEN l < r ELSE l > r

\* *it
Deref(m_heap, it) == m_heap[it + 1]

\* std::iter_swap(i, j)
iter_swap(m_heap, i, j) ==
    [m_heap EXCEPT ![i + 1] = m_heap[j + 1], ![j + 1] = m_heap[i + 1]]

\* The quotient of the signed division of C++, which rounds toward zero
Quotient(n, d) == IF n < 0 THEN -((-n) \div d) ELSE n \div d

\* bheap::iterator_parent
iterator_parent(m_heap, it) ==
    LET idx == Quotient(it - 1, 2)
    IN IF idx >= Len(m_heap) THEN Len(m_heap) ELSE idx

\* bheap::iterator_positive
iterator_positive(m_heap, it) ==
    LET idx == it * 2 + 1
    IN IF idx >= Len(m_heap) THEN Len(m_heap) ELSE idx

\* iterator_negative that gives the positive child
iterator_negative_same(m_heap, it) == iterator_positive(m_heap, it)

\* bheap::iterator_negative
iterator_negative(m_heap, it) ==
    LET idx == it * 2 + 2
    IN IF idx >= Len(m_heap) THEN Len(m_heap) ELSE idx

\* The loop of bheap::fix_heap, bheap.hpp:94-101
RECURSIVE fix_heap_loop(_, _, _)
fix_heap_loop(m_heap, c, it) ==
    LET parent == iterator_parent(m_heap, it)
    IN IF it = 0 THEN m_heap
       ELSE IF ~compare(c, Deref(m_heap, parent), Deref(m_heap, it)) THEN m_heap
       ELSE fix_heap_loop(iter_swap(m_heap, parent, it), c, parent)

\* bheap::fix_heap
fix_heap(m_heap, c) == fix_heap_loop(m_heap, c, Len(m_heap) - 1)

\* bheap::fix_heap_recursive
RECURSIVE fix_heap_recursive(_, _, _)
fix_heap_recursive(m_heap, c, it) ==
    LET stop == Len(m_heap)
        positive == iterator_positive(m_heap, it)
        negative == iterator_negative(m_heap, it)
        first == IF positive # stop /\ compare(c, Deref(m_heap, it), Deref(m_heap, positive))
                 THEN positive ELSE it
        largest == IF negative # stop /\ compare(c, Deref(m_heap, first), Deref(m_heap, negative))
                   THEN negative ELSE first
    IN IF largest # it
       THEN fix_heap_recursive(iter_swap(m_heap, it, largest), c, largest)
       ELSE m_heap

\* bheap::push and bheap::emplace
push(h, value) == [h EXCEPT !.m_heap = fix_heap(Append(h.m_heap, value), h.m_comparator)]

\* bheap::pop
pop(h) ==
    LET swapped == iter_swap(h.m_heap, 0, Len(h.m_heap) - 1)
        popped == SubSeq(swapped, 1, Len(swapped) - 1)
    IN [h EXCEPT !.m_heap = fix_heap_recursive(popped, h.m_comparator, 0)]

\* A bheap as default-constructed, with the comparator c
NoHeap(c) == [m_heap |-> <<>>, m_comparator |-> c]

----------------------------------------------------------------------------
(* btree, btree.hpp:19-279 *)

\* A btree as default-constructed, with the comparator c: no node, and
\* m_root the null pointer, which is 0
NoTree(c) == [nodes |-> <<>>, m_root |-> 0, m_comparator |-> c]

\* No iterator
NoIterator == [m_node |-> 0, m_isEnd |-> FALSE]

\* The loop of emplace, btree.hpp:190-199, from the node *node: the values
\* it gives to code.push_back, and the last node it sees
RECURSIVE emplace_loop(_, _, _, _)
emplace_loop(t, node, value, path) ==
    LET positive == compare(t.m_comparator, value, t.nodes[node].value)
        child == IF positive THEN t.nodes[node].positive ELSE t.nodes[node].negative
    IN IF child = 0 THEN [path |-> Append(path, positive), parent |-> node]
       ELSE emplace_loop(t, child, value, Append(path, positive))

\* btree::emplace.  code is the vector "b"; the iterator that is returned
\* copies code into its m_code, the vector "a", and the caller drops it.
emplace(w, t, value, g, u) ==
    LET r == IF t.m_root = 0 THEN [path |-> <<>>, parent |-> 0]
             ELSE emplace_loop(t, t.m_root, value, <<>>)
        new == Len(t.nodes) + 1
        bnode == [parent |-> r.parent, positive |-> 0, negative |-> 0, value |-> value]
        nodes == Append(t.nodes, bnode)
        w1 == push_back_all(construct(w, "b", 1), "b", r.path, 1, Len(r.path), g)
        w2 == bvec_copy(w1, "a", "b", g, u)
    IN [w |-> destroy(destroy(w2, "b"), "a"),
        t |-> [t EXCEPT !.nodes =
                            IF r.parent = 0 THEN nodes
                            ELSE IF r.path[Len(r.path)]
                            THEN [nodes EXCEPT ![r.parent].positive = new]
                            ELSE [nodes EXCEPT ![r.parent].negative = new],
                        !.m_root = IF r.parent = 0 THEN new ELSE @]]

\* while (node->positive) node = node->positive, counting the steps
RECURSIVE positive_loop(_, _, _)
positive_loop(t, node, n) ==
    IF t.nodes[node].positive = 0 THEN [node |-> node, n |-> n]
    ELSE positive_loop(t, t.nodes[node].positive, n + 1)

\* n times code.push_back(true)
push_back_true(w, x, n, g) == push_back_all(w, x, [i \in 1 .. n |-> TRUE], 1, n, g)

\* btree::begin, of a tree that is not empty
begin(w, t, g, u) ==
    LET r == positive_loop(t, t.m_root, 0)
        w1 == push_back_true(construct(w, "b", 1), "b", r.n, g)
        w2 == bvec_copy(w1, "a", "b", g, u)
    IN [w |-> destroy(w2, "b"), it |-> [m_node |-> r.node, m_isEnd |-> FALSE]]

\* btree::end: its m_code is read by nothing and is left out
end(t) == [m_node |-> 0, m_isEnd |-> TRUE]

\* iterator::operator==
iterator_equal(lhs, rhs) ==
    IF lhs.m_isEnd \/ rhs.m_isEnd THEN lhs.m_isEnd = rhs.m_isEnd
    ELSE lhs.m_node = rhs.m_node

\* *iter for the reverse iterator at m_pos = pos of m_code.  Below position
\* 0 the position is a size_type near its maximum: the read is outside the
\* vector and gives what the memory there holds.
code_at(w, pos, g) == IF pos < 0 THEN g = 1 ELSE get_at(w, "a", pos, g)

\* The loop of advance<true>, btree.hpp:161-164: up to the last positive
\* path
RECURSIVE parent_loop(_, _, _, _, _)
parent_loop(w, t, next, pos, g) ==
    IF t.nodes[next].parent # 0 /\ ~code_at(w, pos, g)
    THEN parent_loop(FaultIf(w, pos < 0, "out_of_bounds"), t, t.nodes[next].parent, pos - 1, g)
    ELSE [w |-> FaultIf(w, t.nodes[next].parent # 0 /\ pos < 0, "out_of_bounds"),
          next |-> next, pos |-> pos]

\* iterator::advance<true>, which is operator++
advance(w, t, it, g, u) ==
    LET bnode == t.nodes[it.m_node]
        \* to the negative child and down its positive path
        r == positive_loop(t, bnode.negative, 0)
        w1 == push_back_true(push_back(w, "a", FALSE, g), "a", r.n, g)
        \* or up
        p == parent_loop(w, t, it.m_node, size(w.vec["a"]) - 1, g)
        first == IF p.pos < 0 THEN 0 ELSE p.pos
        w2 == erase_range(p.w, "a", first, size(w.vec["a"]), g, u)
    IN IF it.m_isEnd THEN [w |-> w, it |-> it]
       ELSE IF bnode.negative # 0 THEN [w |-> w1, it |-> [it EXCEPT !.m_node = r.node]]
       ELSE IF bnode.parent # 0
       THEN IF t.nodes[p.next].parent # 0
            THEN [w |-> w2, it |-> [it EXCEPT !.m_node = t.nodes[p.next].parent]]
            ELSE [w |-> p.w, it |-> [it EXCEPT !.m_isEnd = TRUE]]
       ELSE [w |-> w, it |-> [it EXCEPT !.m_isEnd = TRUE]]

----------------------------------------------------------------------------
(* The arguments the operations are called with *)

\* Counts for the constructors, resize, reserve and assign: inline, more
\* than a word inline, the inline limit, past it, and two full words
Counts ==
    {0, 1, block_digits + 1, stack_capacity, stack_capacity + 1, 2 * block_digits}

\* bvec::max_size, which is a count of the model in the 32 bit build only
max_size == heap_capacity_max * block_digits

\* Counts for reserve at the end of the capacity field: the last count whose
\* words the field holds and the first whose words it does not
LargeCounts == {max_size - block_digits, max_size}

\* Counts for resize past the size field: the first count the field does not
\* hold, which is max_size(), and one a word and a bit above it
OverCounts == {max_size, max_size + block_digits + 1}

\* Counts for assign(count, value)
FillCounts == {1, stack_capacity, 2 * block_digits}

\* Positions for erase(pos) and the proxies
Positions == {0, 1, block_digits - 1, block_digits, 2 * block_digits + 3}

\* Boundaries for erase(first, last) and the slices of assign
Marks == {0, 3, 8, block_digits, block_digits + 8, block_digits + 11}

\* A bit pattern without a short period
PatternBit(i) == ((i * i) % 7 \in {1, 2}) # (i % 11 = 3)

Pattern(n) == [i \in 1 .. n |-> PatternBit(i - 1)]

ListLengths == {5, stack_capacity, 2 * block_digits, 2 * block_digits + 5}

\* Short initializer lists, every one of one to four values
Examples == UNION {[1 .. n -> BOOLEAN] : n \in 1 .. 4}

\* The sequences of values that the runs of push_back append: the pattern,
\* its complement, all true and all false
Families == {0, 1, 2, 3}

FamilyBit(f, i) ==
    IF f = 0 THEN PatternBit(i)
    ELSE IF f = 1 THEN ~PatternBit(i)
    ELSE f = 2

UndefinedShift == {"mod", "zero"}

Names == {"a", "b"}

Other(x) == IF x = "a" THEN "b" ELSE "a"

\* The allocator objects a vector can be given
Allocators == {1, 2}

\* A vector that is not constructed, to be constructed with the allocator alloc
NoVector(alloc) ==
    [is_heap |-> FALSE, size |-> 0, data |-> {}, capacity |-> 0, pointer |-> 0,
     alloc |-> alloc, alive |-> FALSE]

\* Values for push, emplace and pop of the bheap
HeapValues == 1 .. 4

\* Values for emplace of the btree
TreeValues == 1 .. 3

\* How insert takes its values one after the other: falling or rising
Chains == {"insert_below", "insert_above"}

\* How a tree is built: of any values, or of a chain
Inserts == {"emplace"} \cup Chains

\* Nothing pushed or visited yet
NoLog ==
    [op |-> "none", value |-> 0, held |-> [v \in HeapValues |-> 0], visited |-> <<>>]

NoLast ==
    [op |-> "none", copied |-> FALSE, x |-> "a", y |-> "b", first |-> 0, last |-> 0,
     value |-> FALSE, result |-> 0, vec |-> [x \in Names |-> NoVector(1)], mem |-> <<>>]

----------------------------------------------------------------------------
(* The state machine: operations on the vectors a and b *)

\* The step from the current state by the operation op, which leaves the
\* world w2 and counts `count` operations
Record(op, x, y, first, last_, value, w2, count) ==
    /\ vec' = w2.vec
    /\ mem' = w2.mem
    /\ faults' = w2.faults
    /\ last' = [op |-> op, copied |-> last.copied \/ op \in {"bvec_copy", "copy_assign"},
                x |-> x, y |-> y, first |-> first, last |-> last_, value |-> value,
                result |-> w2.result, vec |-> vec, mem |-> mem]
    /\ steps' = steps + count
    /\ UNCHANGED <<sizeof_pointer, propagate, fresh, near, limit, bheap, btree, iter, log>>

\* An operation on constructed vectors
Step(op, x, y, first, last_, value, w2) ==
    /\ steps < limit
    /\ Record(op, x, y, first, last_, value, w2, 1)

\* A constructor
Construct(op, x, y, first, last_, value, w2) ==
    /\ ~vec[x].alive
    /\ Record(op, x, y, first, last_, value, w2, 0)

Alive(x) == vec[x].alive

\* No vector is constructed yet.  build is the allocators the two vectors
\* will be given and the traits of their type; n bounds the operations.
InitBuild(allocA, allocB, pocs, pocca, n) ==
    /\ sizeof_pointer \in {4, 8}
    /\ propagate = [swap |-> pocs, copy_assignment |-> pocca]
    /\ fresh \in Garbage
    /\ near \in BOOLEAN
    /\ vec = [x \in Names |-> NoVector(IF x = "a" THEN allocA ELSE allocB)]
    /\ mem = <<>>
    /\ faults = {}
    /\ last = NoLast
    /\ steps = 0
    /\ limit = n
    /\ bheap = NoHeap("less")
    /\ btree = NoTree("less")
    /\ iter = NoIterator
    /\ log = NoLog

\* The build of the default template argument: std::allocator, whose objects
\* are all equal and whose traits do not propagate on swap or copy assignment
InitStd(n) == InitBuild(1, 1, FALSE, FALSE, n)

\* Any allocator type, as swap distinguishes them
InitSwap(n) ==
    \E allocB \in Allocators, pocs \in BOOLEAN : InitBuild(1, allocB, pocs, FALSE, n)

\* Any allocator type, as move assignment distinguishes them
InitMove(n) ==
    \E allocB \in Allocators, pocca \in BOOLEAN : InitBuild(1, allocB, FALSE, pocca, n)

\* bvec a;
ConstructEmptyA ==
    Construct("bvec", "a", "b", 0, 0, FALSE, construct(World, "a", vec["a"].alloc))

ConstructFillA ==
    \E count \in Counts, value \in BOOLEAN :
        Construct("bvec_fill", "a", "b", count, 0, value,
                  bvec_fill(World, "a", count, value, vec["a"].alloc, fresh))

ConstructListA ==
    \E n \in ListLengths :
        Construct("bvec_list", "a", "b", n, 0, FALSE,
                  bvec_list(World, "a", Pattern(n), vec["a"].alloc, fresh))

ConstructListB ==
    \E n \in ListLengths :
        /\ Alive("a")
        /\ Construct("bvec_list", "b", "a", n, 0, FALSE,
                     bvec_list(World, "b", Pattern(n), vec["b"].alloc, fresh))

\* bvec a{...}; and bvec b{...}; with the short lists
ConstructExampleA ==
    \E init \in Examples :
        Construct("bvec_list", "a", "b", Len(init), 0, FALSE,
                  bvec_list(World, "a", init, vec["a"].alloc, fresh))

ConstructExampleB ==
    \E init \in Examples :
        /\ Alive("a")
        /\ Construct("bvec_list", "b", "a", Len(init), 0, FALSE,
                     bvec_list(World, "b", init, vec["b"].alloc, fresh))

CopyConstruct ==
    \E u \in UndefinedShift :
        /\ Alive("a")
        /\ Construct("bvec_copy", "b", "a", 0, 0, FALSE, bvec_copy(World, "b", "a", fresh, u))

MoveConstruct ==
    /\ Alive("a")
    /\ Construct("bvec_move", "b", "a", 0, 0, FALSE, bvec_move(World, "b", "a"))

MoveConstructAlloc ==
    \E u \in UndefinedShift :
        /\ Alive("a")
        /\ Construct("bvec_move_alloc", "b", "a", 0, 0, FALSE,
                     bvec_move_alloc(World, "b", "a", vec["b"].alloc, fresh, u))

RangeConstruct ==
    \E first \in Marks, last_ \in Marks \cup {size(vec["a"])}, u \in UndefinedShift :
        /\ Alive("a")
        /\ first <= last_ /\ last_ <= size(vec["a"])
        /\ Construct("bvec_range", "b", "a", first, last_, FALSE,
                     bvec_range(World, "b", "a", first, last_, vec["b"].alloc, fresh, u))

Destroy ==
    \E x \in Names :
        /\ Alive(x)
        /\ Step("destroy", x, Other(x), 0, 0, FALSE, destroy(World, x))

Resize ==
    \E count \in Counts, value \in BOOLEAN :
        /\ Alive("a")
        /\ Step("resize", "a", "b", count, 0, value, resize(World, "a", count, value, fresh))

Reserve ==
    \E n \in Counts :
        /\ Alive("a")
        /\ Step("reserve", "a", "b", n, 0, FALSE, reserve(World, "a", n, fresh))

\* reserve of a count at the end of the capacity field
ReserveLarge ==
    /\ sizeof_pointer = 4
    /\ Alive("a")
    /\ \E n \in LargeCounts :
           Step("reserve", "a", "b", n, 0, FALSE, reserve(World, "a", n, fresh))

\* resize to a count past the size field
ResizeLarge ==
    /\ sizeof_pointer = 4
    /\ Alive("a")
    /\ \E count \in OverCounts, value \in BOOLEAN :
           Step("resize", "a", "b", count, 0, value, resize(World, "a", count, value, fresh))

PushBack ==
    \E value \in BOOLEAN :
        /\ Alive("a")
        /\ Step("push_back", "a", "b", 0, 0, value, push_back(World, "a", value, fresh))

\* push_back of the next value of one sequence of values: every call of a run
\* appends from the sequence that the first call chose
PushBackNext ==
    \E f \in Families :
        /\ Alive("a")
        /\ last.op = "push_back" => f = last.first
        /\ Step("push_back", "a", "b", f, 0, FamilyBit(f, size(vec["a"])),
                push_back(World, "a", FamilyBit(f, size(vec["a"])), fresh))

PopBack ==
    /\ Alive("a")
    /\ size(vec["a"]) > 0
    /\ Step("pop_back", "a", "b", 0, 0, FALSE, pop_back(World, "a"))

Clear ==
    /\ Alive("a")
    /\ Step("clear", "a", "b", 0, 0, FALSE, clear(World, "a"))

Flip ==
    /\ Alive("a")
    /\ Step("flip", "a", "b", 0, 0, FALSE, flip(World, "a"))

SetAt ==
    \E pos \in Positions, value \in BOOLEAN :
        /\ Alive("a")
        /\ pos < size(vec["a"])
        /\ Step("set_at", "a", "b", pos, 0, value, set_at(World, "a", pos, value, 0))

FlipAt ==
    \E pos \in Positions :
        /\ Alive("a")
        /\ pos < size(vec["a"])
        /\ Step("flip_at", "a", "b", pos, 0, FALSE, flip_at(World, "a", pos, 0))

Erase ==
    \E pos \in Positions \cup {size(vec["a"]) - 1}, u \in UndefinedShift :
        /\ Alive("a")
        /\ pos >= 0 /\ pos < size(vec["a"])
        /\ Step("erase", "a", "b", pos, 0, FALSE, erase(World, "a", pos, fresh, u))

EraseRange ==
    \E first \in Marks, last_ \in Marks \cup {size(vec["a"])}, u \in UndefinedShift :
        /\ Alive("a")
        /\ first <= last_ /\ last_ <= size(vec["a"])
        /\ Step("erase_range", "a", "b", first, last_, FALSE,
                erase_range(World, "a", first, last_, fresh, u))

AssignFill ==
    \E count \in FillCounts, value \in BOOLEAN :
        /\ Alive("a")
        /\ Step("assign_fill", "a", "b", count, 0, value,
                assign_fill(World, "a", count, value, fresh))

AssignList ==
    \E n \in ListLengths :
        /\ Alive("a")
        /\ Step("assign_list", "a", "b", n, 0, FALSE, assign_list(World, "a", Pattern(n), fresh))

AssignRange ==
    \E x \in Names : \E first \in Marks, last_ \in Marks \cup {size(vec[Other(x)])},
                         u \in UndefinedShift :
        /\ Alive(x) /\ Alive(Other(x))
        /\ first <= last_ /\ last_ <= size(vec[Other(x)])
        /\ Step("assign_range", x, Other(x), first, last_, FALSE,
                assign_range(World, x, Other(x), first, last_, fresh, u))

CopyAssign ==
    \E x \in Names, u \in UndefinedShift :
        /\ Alive(x) /\ Alive(Other(x))
        /\ Step("copy_assign", x, Other(x), 0, 0, FALSE,
                copy_assign(World, x, Other(x), fresh, u))

\* a = a;
SelfCopyAssign ==
    \E u \in UndefinedShift :
        /\ Alive("a")
        /\ Step("self_copy_assign", "a", "a", 0, 0, FALSE,
                copy_assign(World, "a", "a", fresh, u))

\* a.assign(a.begin(), a.end());
SelfAssignRange ==
    \E u \in UndefinedShift :
        /\ Alive("a")
        /\ Step("self_assign_range", "a", "a", 0, size(vec["a"]), FALSE,
                assign_range(World, "a", "a", 0, size(vec["a"]), fresh, u))

MoveAssign ==
    \E x \in Names, u \in UndefinedShift :
        /\ Alive(x) /\ Alive(Other(x))
        /\ Step("move_assign", x, Other(x), 0, 0, FALSE,
                move_assign(World, x, Other(x), propagate.copy_assignment, fresh, u))

Swap ==
    \E x \in Names :
        /\ Alive(x) /\ Alive(Other(x))
        /\ Step("swap", x, Other(x), 0, 0, FALSE, swap(World, x, Other(x), propagate.swap, fresh))

\* std::erase(a, value)
StdErase ==
    \E value \in BOOLEAN, u \in UndefinedShift :
        /\ Alive("a")
        /\ Step("std_erase", "a", "b", 0, 0, value, std_erase(World, "a", value, fresh, u))

\* std::erase_if(a, pred); the predicate is recorded as the argument `first`
EraseIf ==
    \E pr \in Preds, u \in UndefinedShift :
        /\ Alive("a")
        /\ Step("erase_if", "a", "b", pr, 0, FALSE, erase_if(World, "a", pr, fresh, u))

\* resize to the length of one of the lists, which is where a vector can
\* come to equal one that was built as a list
Shrink ==
    \E count \in ListLengths, value \in BOOLEAN :
        /\ Alive("a")
        /\ Step("resize", "a", "b", count, 0, value, resize(World, "a", count, value, fresh))

\* x <=> y
Compare ==
    \E x \in Names :
        /\ Alive(x) /\ Alive(Other(x))
        /\ Step("compare", x, Other(x), 0, 0, FALSE,
                [World EXCEPT !.result = three_way(World, x, Other(x))])

\* std::hash<bvec>{}(x)
Hash ==
    \E x \in Names, u \in UndefinedShift :
        /\ Alive(x) /\ Alive(Other(x))
        /\ Step("hash", x, Other(x), 0, 0, FALSE, hash(World, x, fresh, u))

\* A bheap, and nothing else
InitHeap ==
    /\ sizeof_pointer = 8
    /\ propagate = [swap |-> FALSE, copy_assignment |-> FALSE]
    /\ fresh = 0
    /\ near = FALSE
    /\ vec = [x \in Names |-> NoVector(1)]
    /\ mem = <<>>
    /\ faults = {}
    /\ last = NoLast
    /\ steps = 0
    /\ limit = MaxHeapOps
    /\ \E c \in Compares : bheap = NoHeap(c)
    /\ btree = NoTree("less")
    /\ iter = NoIterator
    /\ log = NoLog

\* A call on the bheap that leaves the heap h2 and the log log2
HeapStep(h2, log2) ==
    /\ steps < limit
    /\ bheap' = h2
    /\ log' = log2
    /\ steps' = steps + 1
    /\ UNCHANGED <<sizeof_pointer, propagate, fresh, near, vec, mem, faults, last, limit,
                   btree, iter>>

\* h.push(value)
Push ==
    \E value \in HeapValues :
        HeapStep(push(bheap, value),
                 [log EXCEPT !.op = "push", !.value = value, !.held[value] = @ + 1])

\* h.emplace(value)
Emplace ==
    \E value \in HeapValues :
        HeapStep(push(bheap, value),
                 [log EXCEPT !.op = "emplace", !.value = value, !.held[value] = @ + 1])

\* h.pop(), which is to remove h.front()
Pop ==
    /\ Len(bheap.m_heap) > 0
    /\ HeapStep(pop(bheap),
                [log EXCEPT !.op = "pop", !.value = Deref(bheap.m_heap, 0),
                            !.held[Deref(bheap.m_heap, 0)] = @ - 1])

\* A btree, and nothing else
InitTree ==
    /\ sizeof_pointer \in {4, 8}
    /\ propagate = [swap |-> FALSE, copy_assignment |-> FALSE]
    /\ fresh \in Garbage
    /\ near = FALSE
    /\ vec = [x \in Names |-> NoVector(1)]
    /\ mem = <<>>
    /\ faults = {}
    /\ last = NoLast
    /\ steps = 0
    /\ limit = MaxChain
    /\ bheap = NoHeap("less")
    /\ \E c \in Compares : btree = NoTree(c)
    /\ iter = NoIterator
    /\ log = NoLog

\* A call on the btree or on its iterator that leaves the world w2, the
\* tree t2 and the iterator it2
TreeStep(w2, t2, it2, log2) ==
    /\ vec' = w2.vec
    /\ mem' = w2.mem
    /\ faults' = w2.faults
    /\ btree' = t2
    /\ iter' = it2
    /\ log' = log2
    /\ UNCHANGED <<sizeof_pointer, propagate, fresh, near, last, steps, limit, bheap>>

\* What emplace leaves: r is its world and its tree
InsertStep(r, f, value) ==
    TreeStep(r.w, r.t, iter, [log EXCEPT !.op = f, !.value = value])

\* What begin leaves: r is its world and its iterator, which is at the
\* first node that is visited
BeginStep(r) ==
    TreeStep(r.w, btree, r.it, [log EXCEPT !.op = "begin", !.visited = <<r.it.m_node>>])

\* What ++ leaves: r is its world and its iterator, which is at the next
\* node that is visited unless it is at the end
AdvanceStep(r) ==
    TreeStep(r.w, btree, r.it,
             [log EXCEPT !.op = "advance",
                         !.visited = IF r.it.m_isEnd THEN @ ELSE Append(@, r.it.m_node)])

\* t.emplace(value) for a small tree of any shape, or t.insert(value), which
\* is emplace, of the next value of a falling or of a rising sequence
Insert ==
    \E f \in Inserts, v \in TreeValues, u \in UndefinedShift :
        /\ iter = NoIterator
        /\ log.op \in {"none", f}
        /\ f \in Chains => v = 1
        /\ Len(btree.nodes) < (IF f = "emplace" THEN MaxTreeNodes ELSE limit)
        /\ LET value == CASE f = "emplace" -> v
                           [] f = "insert_below" -> limit - Len(btree.nodes)
                           [] OTHER -> Len(btree.nodes) + 1
           IN InsertStep(emplace(World, btree, value, fresh, u), f, value)

\* auto it = t.begin();
Begin ==
    \E u \in UndefinedShift :
        /\ iter = NoIterator
        /\ btree.m_root # 0
        /\ BeginStep(begin(World, btree, fresh, u))

\* ++it, while it != t.end(); the run ends where it has made more steps
\* than the tree has nodes
Advance ==
    \E u \in UndefinedShift :
        /\ iter # NoIterator
        /\ ~iterator_equal(iter, end(btree))
        /\ Len(log.visited) <= Len(btree.nodes)
        /\ AdvanceStep(advance(World, btree, iter, fresh, u))

Next ==
    \/ ConstructFillA \/ ConstructListA \/ ConstructListB
    \/ CopyConstruct \/ MoveConstruct \/ MoveConstructAlloc \/ RangeConstruct \/ Destroy
    \/ Resize \/ Reserve \/ ReserveLarge \/ PushBack \/ PopBack \/ Clear \/ Flip
    \/ SetAt \/ FlipAt \/ Erase \/ EraseRange
    \/ AssignFill \/ AssignList \/ AssignRange \/ CopyAssign \/ MoveAssign \/ Swap

\* Every operation, from the build of the default template argument
Spec == InitStd(MaxStepsAll) /\ [][Next]_vars

\* Growth: resize, reserve, push_back and what leaves bits above size
NextGrowth ==
    \/ ConstructFillA \/ ConstructListA
    \/ Resize \/ Reserve \/ ReserveLarge \/ PushBack \/ PopBack \/ Clear \/ Flip

SpecGrowth == InitStd(MaxSteps) /\ [][NextGrowth]_vars

\* Removal: erase of a position and of a range
NextErase ==
    \/ ConstructFillA \/ ConstructListA
    \/ Reserve \/ Erase \/ EraseRange

SpecErase == InitStd(MaxSteps) /\ [][NextErase]_vars

\* Copies, and what then changes the one vector
NextCopy ==
    \/ ConstructListA \/ CopyConstruct
    \/ CopyAssign
    \/ PushBack \/ Flip \/ SetAt \/ Erase

SpecCopy == InitStd(MaxSteps) /\ [][NextCopy]_vars

\* swap, for any allocator type
NextSwap ==
    \/ ConstructListA \/ RangeConstruct
    \/ AssignFill \/ Swap

SpecSwap == InitSwap(MaxSteps) /\ [][NextSwap]_vars

\* Moves, for any allocator type
NextMove ==
    \/ ConstructListA \/ ConstructListB
    \/ MoveConstruct \/ MoveConstructAlloc \/ MoveAssign
    \/ Reserve

SpecMove == InitMove(MaxSteps) /\ [][NextMove]_vars

\* Runs of push_back on a vector that starts empty
NextAppend == ConstructEmptyA \/ PushBackNext

SpecAppend == InitStd(MaxAppends) /\ [][NextAppend]_vars

\* assign from a slice of the other vector
NextAssign == ConstructListA \/ ConstructListB \/ AssignRange

SpecAssign == InitStd(MaxSteps) /\ [][NextAssign]_vars

\* std::erase, on vectors as constructed and as resized
NextStdErase ==
    \/ ConstructFillA \/ ConstructListA
    \/ Resize \/ StdErase

SpecStdErase == InitStd(MaxSteps) /\ [][NextStdErase]_vars

\* std::erase_if, on vectors as constructed
NextEraseIf == ConstructFillA \/ ConstructListA \/ EraseIf

SpecEraseIf == InitStd(MaxStepsAll) /\ [][NextEraseIf]_vars

\* operator<=>, on vectors as constructed and as resized
NextCompare ==
    \/ ConstructFillA \/ ConstructListA \/ ConstructListB
    \/ Resize \/ Compare

SpecCompare == InitStd(MaxSteps) /\ [][NextCompare]_vars

\* std::hash, on lists and on what was resized to the length of a list
NextHash == ConstructListA \/ ConstructListB \/ Shrink \/ Hash

SpecHash == InitStd(MaxSteps) /\ [][NextHash]_vars

\* Writes of bits in place: the proxy reference's assignment and flip, and
\* the flip of the whole vector, on vectors as constructed and as resized
NextAccess ==
    \/ ConstructFillA \/ ConstructListA
    \/ Resize \/ SetAt \/ FlipAt \/ Flip

SpecAccess == InitStd(MaxSteps) /\ [][NextAccess]_vars

\* The operations on constructed vectors that can change the mode or are
\* said to keep it, one of them in a run
NextMode ==
    \/ ConstructFillA \/ ConstructListA \/ ConstructListB
    \/ Resize \/ Reserve \/ PushBack \/ PopBack \/ Clear \/ Flip
    \/ SetAt \/ FlipAt \/ Erase \/ EraseRange
    \/ AssignFill \/ AssignRange \/ CopyAssign \/ MoveAssign \/ Swap

SpecMode == InitStd(MaxStepsAll) /\ [][NextMode]_vars

\* Comparisons of vectors built from the short lists
NextOrder == ConstructExampleA \/ ConstructExampleB \/ Compare

SpecOrder == InitStd(MaxStepsAll) /\ [][NextOrder]_vars

\* The life of a vector: what allocates, reallocates and releases its buffer
NextLifetime ==
    \/ ConstructFillA \/ ConstructListA
    \/ Resize \/ Reserve \/ ReserveLarge \/ AssignFill \/ Destroy

SpecLifetime == InitStd(MaxSteps) /\ [][NextLifetime]_vars

\* What reduces the size of a vector, and what allocates; erase(first, last)
\* as the first operation on a constructed vector
NextShrink ==
    \/ ConstructFillA \/ ConstructListA
    \/ Resize \/ Reserve \/ ReserveLarge \/ PopBack \/ Clear \/ Erase
    \/ (steps = 0 /\ EraseRange)

SpecShrink == InitStd(MaxSteps) /\ [][NextShrink]_vars

\* Counts past the fields of the heap representation
NextWrap == ConstructFillA \/ ConstructListA \/ ResizeLarge

SpecWrap == InitStd(MaxStepsAll) /\ [][NextWrap]_vars

\* Assignment of a vector to itself
NextSelf == ConstructFillA \/ ConstructListA \/ SelfCopyAssign \/ SelfAssignRange

SpecSelf == InitStd(MaxStepsAll) /\ [][NextSelf]_vars

\* The bheap under push, emplace and pop
NextHeap == Push \/ Emplace \/ Pop

SpecHeap == InitHeap /\ [][NextHeap]_vars

\* The btree: built, then walked from begin() to end()
NextTree == Insert \/ Begin \/ Advance

SpecTree == InitTree /\ [][NextTree]_vars

----------------------------------------------------------------------------
(* What the claims speak of *)

\* The world before the last operation
Before == [vec |-> last.vec, mem |-> last.mem, faults |-> {}, near |-> near, result |-> 0]

\* The world now
Now == [vec |-> vec, mem |-> mem, faults |-> faults, near |-> near, result |-> last.result]

\* The bits b[0..first) followed by b[last..n), as positions
WithoutRange(bits, first, last_) ==
    {p \in bits : p < first} \cup {p - (last_ - first) : p \in {q \in bits : q >= last_}}

\* The last operation acted on a heap-backed vector, or on an inline one
WasHeap == last.vec[last.x].is_heap

----------------------------------------------------------------------------
(* C1 *)

\* C1: for every vector of size n, inline or heap-backed, and all
\* 0 <= first <= last <= n, after erase(first, last) the size is
\* n - (last - first) and the bits are b[0..first) followed by b[last..n).
C1_EraseRangeRemoves ==
    last.op = "erase_range" =>
        /\ size(vec[last.x]) = size(last.vec[last.x]) - (last.last - last.first)
        /\ Bits(Now, last.x) = WithoutRange(Bits(Before, last.x), last.first, last.last)

----------------------------------------------------------------------------
(* C2 *)

\* C2: for every vector of size n >= 1, inline or heap-backed, and every
\* pos < n, erase(pos) decrements size by one, keeps the bits below pos and
\* moves every bit above pos down by one position.
C2_ErasePositionRemoves ==
    last.op = "erase" =>
        /\ size(vec[last.x]) = size(last.vec[last.x]) - 1
        /\ Bits(Now, last.x) = WithoutRange(Bits(Before, last.x), last.first, last.first + 1)

----------------------------------------------------------------------------
(* C3 *)

Min(a, b) == IF a < b THEN a ELSE b

\* C3: for every reachable vector state with size s, every n and every fill
\* value, after resize(n, fill) the size is n, every bit below min(s, n)
\* keeps its value and every bit at s <= i < n equals fill.
C3_ResizeKeepsAndFills ==
    last.op = "resize" =>
        LET s == size(last.vec[last.x])
            n == last.first
        IN /\ size(vec[last.x]) = n
           /\ Bits(Now, last.x) =
                (Bits(Before, last.x) \cap Below(Min(s, n)))
                \cup (IF last.value THEN s .. (n - 1) ELSE {})

----------------------------------------------------------------------------
(* C4 *)

\* C4: from an inline vector of any size s holding any bits, resize(n, v)
\* with n above the inline capacity leaves every bit below s as it was.
C4_PromotionKeepsBits ==
    (last.op = "resize" /\ ~WasHeap /\ last.first > stack_capacity) =>
        Bits(Now, last.x) \cap Below(size(last.vec[last.x])) = Bits(Before, last.x)

----------------------------------------------------------------------------
(* C5 *)

\* The last operation copied the whole of last.y into last.x
WasCopy ==
    \/ last.op \in {"copy_assign", "bvec_copy"}
    \/ last.op = "assign_range" /\ last.first = 0 /\ last.last = size(last.vec[last.y])

\* C5: for any vector other, after x.assign(other.begin(), other.end()), copy
\* construction or copy assignment, x == other.
C5_CopyIsEqual == WasCopy => Equal(Now, last.x, last.y)

----------------------------------------------------------------------------
(* C6 *)

\* C6: in every state reached by operations called with valid arguments,
\* every vector has 0 <= size() <= capacity().
C6_SizeWithinCapacity ==
    \A x \in Names :
        Alive(x) => size(vec[x]) >= 0 /\ size(vec[x]) <= capacity(vec[x])

----------------------------------------------------------------------------
(* C7 *)

\* C7: after a.swap(b), a has the size and bits b had before and b has those
\* a had, for inline and heap vectors and equal and unequal allocators.
C7_SwapExchanges ==
    last.op = "swap" =>
        /\ size(vec[last.x]) = size(last.vec[last.y])
        /\ size(vec[last.y]) = size(last.vec[last.x])
        /\ Bits(Now, last.x) = Bits(Before, last.y)
        /\ Bits(Now, last.y) = Bits(Before, last.x)

----------------------------------------------------------------------------
(* C8 *)

\* What reserve(n) promises of the step it made
ReserveContract ==
    LET n == last.first
        x == last.x
    IN /\ capacity(vec[x]) >= n
       /\ size(vec[x]) = size(last.vec[x])
       /\ Bits(Now, x) = Bits(Before, x)
       /\ (capacity(last.vec[x]) >= n => vec = last.vec /\ mem = last.mem)
       /\ LET again == reserve(Now, x, n, fresh)
          IN again.vec = vec /\ again.mem = mem

\* The capacity field of the vector v says how many words its buffer has
CapacityIsAllocated(v, m) ==
    v.is_heap => m[v.pointer].live /\ m[v.pointer].words = v.capacity

----------------------------------------------------------------------------
(* C9 *)

\* C9: after a move construction, a move construction with an allocator or a
\* move assignment, the destination has the size and bits the source had and
\* the source is inline with size 0, for inline and heap sources and equal
\* and unequal allocators.
C9_MoveEmptiesSource ==
    last.op \in {"bvec_move", "bvec_move_alloc", "move_assign"} =>
        /\ size(vec[last.x]) = size(last.vec[last.y])
        /\ Bits(Now, last.x) = Bits(Before, last.y)
        /\ ~vec[last.y].is_heap
        /\ size(vec[last.y]) = 0

----------------------------------------------------------------------------
(* C10 *)

\* The operations that change the vector a alone
Mutations == {"push_back", "flip", "set_at", "erase"}

\* C10: once b was copy-constructed from a, or one of the two copy-assigned
\* from the other, a mutation of a (a bit write, flip, push_back, erase)
\* leaves the size and the bits of b as they were.
C10_CopyIsIndependent ==
    (last.copied /\ last.op \in Mutations /\ last.x = "a") =>
        /\ size(vec["b"]) = size(last.vec["b"])
        /\ Bits(Now, "b") = Bits(Before, "b")

----------------------------------------------------------------------------
(* C11 *)

\* The positions below n at which the sequence of values f holds true
Reference(f, n) == {i \in Below(n) : FamilyBit(f, i)}

\* C11: from an empty vector, after k calls of push_back with the values
\* v_0 .. v_(k-1), across the inline capacity and the word boundaries, size()
\* is k and bit i is v_i for every i < k.
C11_AppendsMatchReference ==
    (Alive("a") /\ last.op \in {"bvec", "push_back"}) =>
        /\ size(vec["a"]) = steps
        /\ Bits(Now, "a") = Reference(last.first, steps)
        /\ faults = {}

\* push_back calls took the vector to the heap and past the end of its
\* second word, with bits set in the first word and in the third
C11_AppendedPastSecondWord ==
    /\ last.op = "push_back"
    /\ vec["a"].is_heap
    /\ steps > 2 * block_digits
    /\ \E pos \in Bits(Now, "a") : pos < block_digits
    /\ \E pos \in Bits(Now, "a") : pos >= 2 * block_digits

----------------------------------------------------------------------------
(* C12 *)

\* The bits at first .. last-1 of bits, moved down to position 0
Slice(bits, first, last_) == {p - first : p \in {q \in bits : q >= first /\ q < last_}}

\* C12: for every source vector s, inline or heap-backed, and all
\* 0 <= first <= last <= s.size(), after x.assign(s.begin()+first,
\* s.begin()+last) the size of x is last - first and bit i of x is bit
\* first + i of s, whatever x held before.
C12_AssignSliceCopies ==
    last.op = "assign_range" =>
        /\ size(vec[last.x]) = last.last - last.first
        /\ Bits(Now, last.x) = Slice(Bits(Before, last.y), last.first, last.last)

----------------------------------------------------------------------------
(* C13 *)

\* C13: for every vector c of size n and every value, after erase(c, value)
\* the size is the number of positions below n whose bit differed from value,
\* every remaining bit is the opposite of value, and the count returned is
\* the number of bits that equalled value.
C13_StdEraseRemovesValue ==
    last.op = "std_erase" =>
        LET n == size(last.vec[last.x])
            ones == Cardinality(Bits(Before, last.x))
            equal == IF last.value THEN ones ELSE n - ones
        IN /\ size(vec[last.x]) = n - equal
           /\ Bits(Now, last.x) = (IF last.value THEN {} ELSE Below(n - equal))
           /\ last.result = equal

----------------------------------------------------------------------------
(* C14 *)

\* The positions of the elements of positions `keep` among themselves

Packed(bits, keep, n) ==
    {Cardinality({q \in keep : q < p}) : p \in bits \cap keep}

\* C14: for every vector c, inline or heap-backed, and every predicate on a
\* bit value, after erase_if(c, pred) the vector holds the original bits for
\* which pred is false, in their order, and the count returned is the number
\* of original bits for which pred is true.
C14_EraseIfRemovesMatching ==
    last.op = "erase_if" =>
        LET n == size(last.vec[last.x])
            old == Bits(Before, last.x)
            keep == {p \in Below(n) : ~pred(last.first, p \in old)}
        IN /\ size(vec[last.x]) = Cardinality(keep)
           /\ Bits(Now, last.x) = Packed(old, keep, n)
           /\ last.result = n - Cardinality(keep)

----------------------------------------------------------------------------
(* C15 *)

\* The comparison of the unsigned integers whose set binary digits are at
\* the positions A and at the positions B
NumberOrder(A, B) ==
    LET differ == (A \ B) \cup (B \ A)
        top == CHOOSE i \in differ : \A j \in differ : j <= i
    IN IF differ = {} THEN "equivalent"
       ELSE IF top \in A THEN "greater"
       ELSE "less"

\* C15: for all vectors a and b, of any sizes and representations, a <=> b
\* is the comparison of the unsigned integers sum(a[i]*2^i) and
\* sum(b[i]*2^i).
C15_OrderIsNumeric ==
    last.op = "compare" =>
        last.result = NumberOrder(Bits(Now, last.x), Bits(Now, last.y))

\* a <=> b was less although a is the longer, its bits above b.size() being
\* false, and one of the two is heap-backed
C15_LongerComparedLess ==
    /\ last.op = "compare"
    /\ size(vec[last.x]) > size(vec[last.y])
    /\ last.result = "less"
    /\ vec[last.x].is_heap # vec[last.y].is_heap

----------------------------------------------------------------------------
(* C16 *)

\* C16: two vectors that are equal under operator== have the same hash
\* value, whatever their representation, their capacity, the way they were
\* built and the bits stored at positions at and above size.
C16_EqualHashEqual ==
    (last.op = "hash" /\ Equal(Now, last.x, last.y)) =>
        \A u \in UndefinedShift : hash(Now, last.y, fresh, u).result = last.result

\* The hash was taken of a vector that equals the other, where one of the
\* two is heap-backed and the other inline
C16_HashedAcrossModes ==
    /\ last.op = "hash"
    /\ Equal(Now, last.x, last.y)
    /\ vec[last.x].is_heap # vec[last.y].is_heap
    /\ size(vec[last.x]) > block_digits

----------------------------------------------------------------------------
(* C17 *)

\* C17: for every n and every value v, resize(n, v) on an empty vector, and
\* the constructor bvec(n, v), gives size() = n with every bit below n equal
\* to v, where n fits inline and where it needs a heap buffer.
C17_ResizeFromEmptyFills ==
    (last.op \in {"resize", "bvec_fill"} /\ size(last.vec[last.x]) = 0) =>
        /\ size(vec[last.x]) = last.first
        /\ Bits(Now, last.x) = (IF last.value THEN Below(last.first) ELSE {})

----------------------------------------------------------------------------
(* C18 *)

\* The last operation left the size, the capacity, the mode and every bit
\* but the one at position pos as they were
OnlyBitChanged(pos) ==
    /\ size(vec[last.x]) = size(last.vec[last.x])
    /\ capacity(vec[last.x]) = capacity(last.vec[last.x])
    /\ vec[last.x].is_heap = last.vec[last.x].is_heap
    /\ Bits(Now, last.x) \ {pos} = Bits(Before, last.x) \ {pos}

\* C18: for every vector and every pos < size(), after the proxy at pos was
\* assigned v a read of pos gives v, and after its flip() the bit is the
\* inverse of what it was; size(), capacity(), the mode and every other bit
\* below size() are unchanged, inline and on the heap.
C18_ProxyWritesOneBit ==
    /\ last.op = "set_at" =>
           /\ get_at(Now, last.x, last.first, 0) = last.value
           /\ OnlyBitChanged(last.first)
           /\ faults = {}
    /\ last.op = "flip_at" =>
           /\ get_at(Now, last.x, last.first, 0) = ~get_at(Before, last.x, last.first, 0)
           /\ OnlyBitChanged(last.first)
           /\ faults = {}

\* The proxy cleared a set bit in the third word of a heap-backed vector
C18_ClearedBitInThirdWord ==
    /\ last.op = "set_at"
    /\ WasHeap
    /\ last.first >= 2 * block_digits
    /\ ~last.value
    /\ get_at(Before, last.x, last.first, 0)

----------------------------------------------------------------------------
(* C19 *)

\* C19: for every vector, flip() leaves size(), capacity() and the mode as
\* they were and inverts every bit at the positions 0 .. size()-1; a second
\* flip() restores every bit below size().
C19_FlipInvertsAll ==
    last.op = "flip" =>
        /\ size(vec[last.x]) = size(last.vec[last.x])
        /\ capacity(vec[last.x]) = capacity(last.vec[last.x])
        /\ vec[last.x].is_heap = last.vec[last.x].is_heap
        /\ Bits(Now, last.x) = Below(size(vec[last.x])) \ Bits(Before, last.x)
        /\ Bits(flip(Now, last.x), last.x) = Bits(Before, last.x)
        /\ faults = {}

\* flip() inverted a heap-backed vector of more than two words that held
\* true and false bits
C19_FlippedThreeWords ==
    /\ last.op = "flip"
    /\ WasHeap
    /\ size(vec[last.x]) > 2 * block_digits
    /\ Bits(Before, last.x) # {}
    /\ Bits(Now, last.x) # {}

----------------------------------------------------------------------------
(* C20 *)

\* The vectors that were heap-backed before the last operation and live on
WereHeap == {x \in Names : last.vec[x].alive /\ last.vec[x].is_heap /\ vec[x].alive}

\* C20 as the spec states it: a vector that is heap-backed stays heap-backed
\* under every operation on it, assign, swap and being moved from included.
C20_HeapIsPermanent == \A x \in WereHeap : vec[x].is_heap

\* The operations that work on the buffer the vector has
InPlace ==
    {"resize", "reserve", "push_back", "pop_back", "clear", "flip",
     "set_at", "flip_at", "erase", "erase_range"}

\* C20: a heap-backed vector stays heap-backed under resize, reserve,
\* push_back, pop_back, clear, flip, the proxy writes and erase; after
\* assign(count, value) it is heap-backed exactly when count is above the
\* inline capacity.
C20_HeapStaysInPlace ==
    /\ last.op \in InPlace => \A x \in WereHeap : vec[x].is_heap
    /\ last.op = "assign_fill" => vec[last.x].is_heap = (last.first > stack_capacity)

\* resize took a heap-backed vector to a size that fits inline, and the
\* vector is still heap-backed
C20_ShrunkOnHeap ==
    /\ last.op = "resize"
    /\ WasHeap
    /\ last.first <= stack_capacity
    /\ vec[last.x].is_heap
    /\ size(vec[last.x]) = last.first

----------------------------------------------------------------------------
(* C21 *)

\* The last operation compared {1,0,1} with {1,1}
ComparedExample ==
    /\ last.op = "compare"
    /\ size(vec[last.x]) = 3 /\ Bits(Now, last.x) = {0, 2}
    /\ size(vec[last.y]) = 2 /\ Bits(Now, last.y) = {0, 1}

\* C21 as the spec states it: {1,0,1} <=> {1,1} is less.
C21_ExampleIsLess == ComparedExample => last.result = "less"

\* C21: {1,0,1} <=> {1,1} is greater, {1,0,1} having a set bit at position
\* 2, which is at or above the size of {1,1}; and {1,1} <=> {1,0,1} is less.
C21_ExampleIsGreater ==
    /\ ComparedExample => last.result = "greater"
    /\ (/\ last.op = "compare"
        /\ size(vec[last.x]) = 2 /\ Bits(Now, last.x) = {0, 1}
        /\ size(vec[last.y]) = 3 /\ Bits(Now, last.y) = {0, 2}) => last.result = "less"

\* {1,0,1} was compared with {1,1}
C21_ExampleCompared == ComparedExample /\ last.result = "greater" /\ faults = {}

----------------------------------------------------------------------------
(* C22 *)

\* C22: no operation called with valid arguments reads or writes a heap word
\* outside the allocated buffer, and no bulk copy runs past it.
C22_AccessesInBounds == "out_of_bounds" \notin faults

----------------------------------------------------------------------------
(* C23 *)

\* C23: no buffer is released twice or with a word count other than the one
\* it was allocated with, every live heap-backed vector points to a buffer
\* that is not released, every buffer that is not released belongs to a live
\* heap-backed vector, and none is left once all vectors are destroyed.
C23_BuffersReleasedOnce ==
    /\ faults \cap {"double_free", "dealloc_size"} = {}
    /\ \A x \in Names :
           (Alive(x) /\ vec[x].is_heap) =>
               vec[x].pointer \in DOMAIN mem /\ mem[vec[x].pointer].live
    /\ \A p \in DOMAIN mem :
           mem[p].live => \E x \in Names : Alive(x) /\ vec[x].is_heap /\ vec[x].pointer = p

----------------------------------------------------------------------------
(* C24 *)

\* The last operation left the vector on the buffer it had, which has the
\* word count it had, and allocated nothing
SameBuffer ==
    LET x == last.x
        p == last.vec[x].pointer
    IN /\ vec[x].is_heap
       /\ vec[x].pointer = p
       /\ vec[x].capacity = last.vec[x].capacity
       /\ Len(mem) = Len(last.mem)
       /\ mem[p].live /\ mem[p].words = last.mem[p].words

\* What C24 says of the last operation: on a heap-backed vector, an operation
\* that only reduces the size keeps the buffer, and resize and reserve
\* allocate only for more words than are allocated
KeepsBuffer ==
    LET x == last.x
        allocated == last.mem[last.vec[x].pointer].words
    IN /\ (\/ last.op \in {"pop_back", "clear", "erase", "erase_range"}
           \/ (last.op = "resize" /\ last.first <= size(last.vec[x]))) => SameBuffer
       /\ last.op \in {"resize", "reserve"} =>
              \/ SameBuffer
              \/ /\ block_round(last.first) > allocated
                 /\ mem[vec[x].pointer].words = block_round(last.first)

----------------------------------------------------------------------------
(* C25 *)

\* C25: resize(n) with n past the size field, on an inline vector (the
\* promotion) and on a heap-backed one, returns; then the size field holds
\* n mod 2^w, the capacity field the word count of n mod 2^c, and size() is
\* n mod 2^w.  The call itself is without fault where the capacity field
\* was true before it.
C25_FieldsWrap ==
    (last.op = "resize" /\ last.first >= 2 ^ heap_size_bits) =>
        /\ vec[last.x].is_heap
        /\ vec[last.x].size = last.first % (2 ^ heap_size_bits)
        /\ vec[last.x].capacity = block_round(last.first) % (2 ^ heap_capacity_bits)
        /\ size(vec[last.x]) = last.first % (2 ^ heap_size_bits)
        /\ CapacityIsAllocated(last.vec[last.x], last.mem) => faults = {}

\* resize past the size field promoted an inline vector and left a size
\* below the count it was called with
C25_PromotedPastTheField ==
    /\ last.op = "resize"
    /\ last.first > 2 ^ heap_size_bits
    /\ ~WasHeap
    /\ size(vec[last.x]) = block_digits + 1
    /\ vec[last.x].capacity = 2

----------------------------------------------------------------------------
(* C26 *)

\* C26: erase_if(c, pred) returns, for every vector c and every predicate.
C26_EraseIfReturns == last.op = "erase_if" => "no_return" \notin faults

----------------------------------------------------------------------------
(* C27 *)

\* C27: a = a and a.assign(a.begin(), a.end()) leave the size and every bit
\* of a as they were and read no buffer that is released, for inline and for
\* heap-backed a.
C27_SelfAssignKeeps ==
    last.op \in {"self_copy_assign", "self_assign_range"} =>
        /\ size(vec[last.x]) = size(last.vec[last.x])
        /\ Bits(Now, last.x) = Bits(Before, last.x)
        /\ "use_after_free" \notin faults

----------------------------------------------------------------------------
(* C28 *)

\* The number of elements of the sequence s that equal v
Count(s, v) == Cardinality({i \in 1 .. Len(s) : s[i] = v})

\* C28: after any sequence of push, emplace and pop calls the comparator
\* does not order the element at index (i-1)/2 before the element at index
\* i, for every index i >= 1; it orders front() before no element; and the
\* heap holds what was pushed and not popped, each value as often.
C28_HeapOrdered ==
    LET m_heap == bheap.m_heap
        c == bheap.m_comparator
    IN /\ \A i \in 1 .. Len(m_heap) - 1 :
              ~compare(c, Deref(m_heap, (i - 1) \div 2), Deref(m_heap, i))
       /\ \A i \in 0 .. Len(m_heap) - 1 : ~compare(c, Deref(m_heap, 0), Deref(m_heap, i))
       /\ \A v \in HeapValues : Count(m_heap, v) = log.held[v]

\* pop took the front from a heap of five elements; four of three values or
\* more remain, and the comparator orders the last below both children of
\* the front
C28_PoppedAndSifted ==
    /\ log.op = "pop"
    /\ Len(bheap.m_heap) = 4
    /\ Cardinality({bheap.m_heap[i] : i \in 1 .. 4}) >= 3
    /\ compare(bheap.m_comparator, Deref(bheap.m_heap, 3), Deref(bheap.m_heap, 1))
    /\ compare(bheap.m_comparator, Deref(bheap.m_heap, 3), Deref(bheap.m_heap, 2))

----------------------------------------------------------------------------
(* C29 *)

\* The choices from the root to the node n: TRUE for positive
RECURSIVE PathOf(_, _)
PathOf(t, n) ==
    LET parent == t.nodes[n].parent
    IN IF parent = 0 THEN <<>>
       ELSE Append(PathOf(t, parent), t.nodes[parent].positive = n)

\* The code of the iterator is the path to its node
CodeIsPath ==
    LET path == PathOf(btree, iter.m_node)
    IN /\ size(vec["a"]) = Len(path)
       /\ Bits(Now, "a") = {i \in Below(Len(path)) : path[i + 1]}

\* The nodes visited so far are visited once each and in the order of the
\* comparator
VisitedInOrder ==
    LET seen == log.visited
        val(i) == btree.nodes[seen[i]].value
    IN /\ \A i, j \in 1 .. Len(seen) : i # j => seen[i] # seen[j]
       /\ \A i \in 1 .. Len(seen) - 1 : ~compare(btree.m_comparator, val(i + 1), val(i))

\* C29: from begin(), ++ visits every element once, in non-decreasing order,
\* and then equals end(); at every step the code of the iterator is as long
\* as its node is deep and spells the path to it.
C29_TraversalInOrder ==
    iter # NoIterator =>
        /\ VisitedInOrder
        /\ ~iter.m_isEnd => CodeIsPath
        /\ iter.m_isEnd => {log.visited[i] : i \in 1 .. Len(log.visited)} = 1 .. Len(btree.nodes)

====
